---- MODULE Spec2Model ----
(***************************************************************************)
(* A model of the frame-compositing and presentation core of KWin:         *)
(*   - the DRM output presentation state machine (DrmOutput, with the      *)
(*     EGL/GBM backend's per-output resources),                            *)
(*   - the Item tree (geometry, bounding rects, stacking),                 *)
(*   - the Scene's optimized paint path (occlusion culling).               *)
(* Every subsystem has a specification of its own over its own variables;  *)
(* the variables of the other subsystems stay at their initial value.      *)
(***************************************************************************)
EXTENDS Integers, Sequences, FiniteSets, TLC

VARIABLES drm, items, itemEnv, scene, gl

vars == <<drm, items, itemEnv, scene, gl>>

(***************************************************************************)
(*                      DRM OUTPUT STATE MACHINE                           *)
(***************************************************************************)

\* Number of buffer addresses the allocator hands out.  An address that no
\* slot points to any more is handed out again (as operator new may do).
MaxBuffers == 3

Buffers == 1..MaxBuffers
NullBuf == 0

\* DrmOutput::DpmsMode (Suspend behaves like Standby in every branch and is
\* left out).
DpmsModes == {"On", "Standby", "Off"}

\* Modes of the connector, output transforms and global positions.
ModeIds == {1, 2}
Transforms == {"Normal", "Rotated180"}
Positions == {0, 1}

\* Where a doAtomicCommit call ends: "ok"; "early" - it fails before the
\* mode-set properties are populated (request allocation, property blob);
\* "late" - it fails after that (plane population, drmModeAtomicCommit).
Outcomes == {"ok", "early", "late"}

\* The outcomes of a test commit and of the real commit that follows it
\* (there is no real commit after a failed test commit).
CommitOutcomes ==
    {<<"ok", r>> : r \in Outcomes} \cup {<<t, "ok">> : t \in {"early", "late"}}

Ev(w, e) == [w EXCEPT !.trace = Append(@, e)]

\* delete b;  (deleting a null pointer does nothing)
DeleteBuf(w, b) ==
    IF b = NullBuf THEN w
    ELSE [w EXCEPT !.bufs[b] = "deleted",
                   !.uaf = @ \/ (w.bufs[b] # "live")]

\* any dereference of b (releaseGbm(), size(), atomicPopulate's bufferId())
ReadBuf(w, b) ==
    IF b = NullBuf THEN w
    ELSE [w EXCEPT !.uaf = @ \/ (w.bufs[b] # "live")]

\* The state after DrmOutput's construction and init(), with the backend's
\* per-output resources created by EglGbmBackend::addOutput.
DrmOutputInit(atomic, deleteAfterFlip) ==
    [ atomic |-> atomic,
      deleteBufferAfterPageFlip |-> deleteAfterFlip,
      enabled |-> TRUE,
      \* initDpms found a DPMS property on the connector (m_dpms is not null)
      hasDpms |-> TRUE,
      sessionActive |-> TRUE,
      m_deleted |-> FALSE,
      deleteLater |-> FALSE,
      crashed |-> FALSE,
      m_pageFlipPending |-> FALSE,
      m_dpmsMode |-> "On",
      m_dpmsModePending |-> "On",
      m_atomicOffPending |-> FALSE,
      m_modesetRequested |-> TRUE,
      planeCurrent |-> NullBuf,
      planeNext |-> NullBuf,
      flipList |-> 0,
      crtcCurrent |-> NullBuf,
      crtcNext |-> NullBuf,
      m_mode |-> 1,
      transform |-> "Normal",
      globalPos |-> 0,
      planeTransformation |-> "Rotate0",
      m_lastWorkingState |-> [valid |-> FALSE, mode |-> 1, transform |-> "Normal",
                              globalPos |-> 0, planeTransformations |-> "Rotate0"],
      \* EglGbmBackend::Output
      inBackend |-> deleteAfterFlip,
      eglSurface |-> deleteAfterFlip,
      \* observation: buffer addresses, the flip events the kernel owes,
      \* what the last handler did, mode, transform and position at the
      \* entry of the last present(), and whether an off request that waited
      \* for the pending flip was withdrawn before that flip completed
      bufs |-> [b \in Buffers |-> IF deleteAfterFlip THEN "free" ELSE "live"],
      uaf |-> FALSE,
      hwFlips |-> 0,
      deferredOff |-> "none",
      \* the render loop as the output's inhibit() and uninhibit() calls left
      \* it; "untracked" where the calls are not followed
      renderLoop |-> "untracked",
      arg |-> "none",
      trace |-> <<>>,
      pre |-> <<>>,
      op |-> "init",
      ret |-> TRUE ]

(* ---------------- collaborators whose code is not in the tree ---------- *)

\* DrmCrtc::blank(output): called by dpmsFinishOn and teardown.  Slots change
\* owner only when they are swapped, so it leaves the buffer slots alone.
blank(w) == w

\* DrmPlane::flipBuffer(): promotes next to current.
planeFlipBuffer(w) ==
    [w EXCEPT !.planeCurrent = w.planeNext, !.planeNext = NullBuf]

\* DrmPlane::flipBufferWithDelete(): releases the previous buffer, then
\* promotes next to current.
planeFlipBufferWithDelete(w) ==
    planeFlipBuffer(IF w.planeCurrent # w.planeNext
                    THEN DeleteBuf(w, w.planeCurrent) ELSE w)

\* DrmCrtc::flipBuffer(): the same for the legacy crtc slots.
crtcFlipBuffer(w) ==
    LET d == IF w.deleteBufferAfterPageFlip /\ w.crtcCurrent # w.crtcNext
             THEN DeleteBuf(w, w.crtcCurrent) ELSE w
    IN [d EXCEPT !.crtcCurrent = w.crtcNext, !.crtcNext = NullBuf]

RECURSIVE FlipPlanes(_, _, _)
\* for (DrmPlane *p : m_nextPlanesFlipList) p->flipBuffer[WithDelete]();
\* the list only ever holds the primary plane, n times.
FlipPlanes(w, n, withDelete) ==
    IF n = 0 THEN w
    ELSE FlipPlanes(IF withDelete THEN planeFlipBufferWithDelete(w)
                    ELSE planeFlipBuffer(w), n - 1, withDelete)

(* ------------------------------ DrmOutput ------------------------------ *)

\* Variant: the full repaint is requested while the render loop is still
\* inhibited.
dpmsFinishOn_RepaintFirst(w) ==
    Ev(Ev(blank(w), "addRepaintFull"), "uninhibit")

\* void DrmOutput::dpmsFinishOn()
dpmsFinishOn(w) ==
    Ev(Ev(blank(w), "uninhibit"), "addRepaintFull")

dpmsFinishOff(w) ==
    Ev(w, "inhibit")

\* Variant: a failed commit leaves the pending DPMS target where the request
\* put it.
errorHandler_KeepPending(w) ==
    [w EXCEPT !.planeNext = IF w.flipList > 0 THEN NullBuf ELSE @,
              !.flipList = 0]

\* the errorHandler lambda of doAtomicCommit
errorHandler(w) ==
    LET a == IF w.m_dpmsMode # w.m_dpmsModePending
             THEN LET r == [w EXCEPT !.m_dpmsModePending = w.m_dpmsMode]
                  IN IF r.m_dpmsMode # "On" THEN dpmsFinishOff(r) ELSE r
             ELSE w
    IN [a EXCEPT !.planeNext = IF a.flipList > 0 THEN NullBuf ELSE @,
                 !.flipList = 0]

\* Variant: the disabling branch deletes the buffers and keeps the slots.
atomicReqModesetPopulate_KeepSlots(w, enable) ==
    IF enable
    THEN ReadBuf(w, w.planeNext)
    ELSE IF w.deleteBufferAfterPageFlip
         THEN DeleteBuf(DeleteBuf(w, w.planeCurrent), w.planeNext)
         ELSE w

atomicReqModesetPopulate(w, enable) ==
    IF enable
    THEN ReadBuf(w, w.planeNext)
    ELSE LET d == IF w.deleteBufferAfterPageFlip
                  THEN DeleteBuf(DeleteBuf(w, w.planeCurrent), w.planeNext)
                  ELSE w
         IN [d EXCEPT !.planeCurrent = NullBuf, !.planeNext = NullBuf]

CommitName(w, mode) ==
    IF w.m_dpmsModePending = "On"
    THEN (IF mode = "Test" THEN "test.on" ELSE "real.on")
    ELSE (IF mode = "Test" THEN "test.off" ELSE "real.off")

\* Variant: a successful test commit already takes the mode-set for done.
doAtomicCommit_ClearOnTest(w, mode, outcome) ==
    IF outcome = "early"
    THEN [errorHandler(Ev(w, "alloc.fail")) EXCEPT !.ret = FALSE]
    ELSE
      LET modeset == w.m_modesetRequested
          p  == IF modeset
                THEN atomicReqModesetPopulate(w, w.m_dpmsModePending = "On")
                ELSE w
          q  == IF p.flipList > 0 THEN ReadBuf(p, p.planeNext) ELSE p
          c  == Ev(q, IF q.hwFlips > 0 THEN "busy." \o CommitName(q, mode)
                      ELSE CommitName(q, mode))
      IN IF outcome = "late"
         THEN [errorHandler(Ev(c, "rejected")) EXCEPT !.ret = FALSE]
         ELSE LET s == IF modeset
                       THEN [c EXCEPT !.m_modesetRequested = FALSE,
                                      !.m_dpmsMode = c.m_dpmsModePending]
                       ELSE c
                  f == IF mode = "Real" /\ c.m_dpmsModePending = "On"
                       THEN [s EXCEPT !.hwFlips = @ + 1] ELSE s
              IN [f EXCEPT !.ret = TRUE]

\* doAtomicCommit(mode); outcome says where the call ends.  The result is in
\* the ret field.  The trace gets "alloc.fail" for an early failure, the name
\* of the commit when the request is handed to the kernel, and "rejected"
\* when the kernel refuses it.
doAtomicCommit(w, mode, outcome) ==
    IF outcome = "early"
    THEN [errorHandler(Ev(w, "alloc.fail")) EXCEPT !.ret = FALSE]
    ELSE
      LET modeset == w.m_modesetRequested
          p  == IF modeset
                THEN atomicReqModesetPopulate(w, w.m_dpmsModePending = "On")
                ELSE w
          \* DrmPlane::atomicPopulate reads the next buffer of every plane
          \* of the flip list
          q  == IF p.flipList > 0 THEN ReadBuf(p, p.planeNext) ELSE p
          c  == Ev(q, IF q.hwFlips > 0 THEN "busy." \o CommitName(q, mode)
                      ELSE CommitName(q, mode))
      IN IF outcome = "late"
         THEN [errorHandler(Ev(c, "rejected")) EXCEPT !.ret = FALSE]
         ELSE LET s == IF mode = "Real" /\ modeset
                       THEN [c EXCEPT !.m_modesetRequested = FALSE,
                                      !.m_dpmsMode = c.m_dpmsModePending]
                       ELSE c
                  \* DRM_MODE_PAGE_FLIP_EVENT: the kernel owes a flip event
                  f == IF mode = "Real" /\ c.m_dpmsModePending = "On"
                       THEN [s EXCEPT !.hwFlips = @ + 1] ELSE s
              IN [f EXCEPT !.ret = TRUE]

dpmsAtomicOff(w, t, r) ==
    LET a == [DeleteBuf(w, w.planeNext) EXCEPT !.m_atomicOffPending = FALSE,
                                               !.planeNext = NullBuf,
                                               !.flipList = @ + 1]
        b == doAtomicCommit(a, "Test", t)
        c == doAtomicCommit(b, "Real", r)
    IN IF ~b.ret THEN b
       ELSE IF ~c.ret THEN c
       ELSE [dpmsFinishOff([c EXCEPT !.flipList = 0]) EXCEPT !.ret = TRUE]

\* Variant: a failed test commit leaves mode, transform and position alone.
goBack_Keep(w) == w

\* Variant: goes back to the snapshot whether it is valid or not.
goBack_Always(w) ==
    LET lws == w.m_lastWorkingState
    IN [w EXCEPT !.m_mode = lws.mode,
                 !.transform = lws.transform,
                 !.globalPos = lws.globalPos,
                 !.planeTransformation = lws.planeTransformations,
                 !.m_modesetRequested = TRUE]

\* "go back to previous state" of presentAtomically
goBack(w) ==
    LET lws == w.m_lastWorkingState
    IN IF lws.valid
       THEN [w EXCEPT !.m_mode = lws.mode,
                      !.transform = lws.transform,
                      !.globalPos = lws.globalPos,
                      !.planeTransformation = lws.planeTransformations,
                      !.m_modesetRequested = TRUE]
       ELSE w

\* Variant: no check for a pending page flip.
presentAtomically_NoPendingCheck(w, buffer, t, r) ==
    IF ~w.sessionActive THEN [w EXCEPT !.ret = FALSE]
    ELSE
      LET a == [w EXCEPT !.planeNext = buffer, !.flipList = @ + 1]
          b == doAtomicCommit(a, "Test", t)
          c == doAtomicCommit(b, "Real", r)
      IN IF ~b.ret THEN [goBack(b) EXCEPT !.ret = FALSE]
         ELSE IF ~c.ret THEN c
         ELSE [c EXCEPT !.m_pageFlipPending = TRUE, !.ret = TRUE]

\* Variant: frames are committed while the session is inactive.
presentAtomically_IgnoreSession(w, buffer, t, r) ==
    IF w.m_pageFlipPending THEN [w EXCEPT !.ret = FALSE]
    ELSE
      LET a == [w EXCEPT !.planeNext = buffer, !.flipList = @ + 1]
          b == doAtomicCommit(a, "Test", t)
          c == doAtomicCommit(b, "Real", r)
      IN IF ~b.ret THEN [goBack(b) EXCEPT !.ret = FALSE]
         ELSE IF ~c.ret THEN c
         ELSE [c EXCEPT !.m_pageFlipPending = TRUE, !.ret = TRUE]

\* bool DrmOutput::presentAtomically(DrmBuffer *buffer)
presentAtomically(w, buffer, t, r) ==
    IF ~w.sessionActive THEN [w EXCEPT !.ret = FALSE]
    ELSE IF w.m_pageFlipPending THEN [w EXCEPT !.ret = FALSE]
    ELSE
      LET a == [w EXCEPT !.planeNext = buffer, !.flipList = @ + 1]
          b == doAtomicCommit(a, "Test", t)
          back == goBack(b)
          wasModeset == b.m_modesetRequested
          c == doAtomicCommit(b, "Real", r)
          good == IF wasModeset
                  THEN [c EXCEPT !.m_lastWorkingState =
                           [valid |-> TRUE, mode |-> c.m_mode,
                            transform |-> c.transform, globalPos |-> c.globalPos,
                            planeTransformations |-> c.planeTransformation]]
                  ELSE c
      IN IF ~b.ret THEN [back EXCEPT !.ret = FALSE]
         ELSE IF ~c.ret THEN c
         ELSE [good EXCEPT !.m_pageFlipPending = TRUE, !.ret = TRUE]

\* bool DrmOutput::presentLegacy(DrmBuffer *buffer); needsModeChange is what
\* current()->needsModeChange(buffer) answers, modeOk and flipOk what
\* drmModeSetCrtc and drmModePageFlip answer.
presentLegacy(w, buffer, needsModeChange, modeOk, flipOk) ==
    IF w.crtcNext # NullBuf THEN [w EXCEPT !.ret = FALSE]
    ELSE IF ~w.sessionActive THEN [w EXCEPT !.crtcNext = buffer, !.ret = FALSE]
    ELSE
      LET setMode == w.crtcCurrent = NullBuf \/ needsModeChange
          a == IF setMode
               THEN Ev(ReadBuf(ReadBuf(w, w.crtcCurrent), buffer),
                       IF modeOk THEN "setCrtc.ok" ELSE "setCrtc.fail")
               ELSE ReadBuf(w, w.crtcCurrent)
          b == Ev(ReadBuf(a, buffer),
                  IF a.hwFlips > 0
                  THEN (IF flipOk THEN "busy.pageFlip.ok" ELSE "busy.pageFlip.fail")
                  ELSE (IF flipOk THEN "pageFlip.ok" ELSE "pageFlip.fail"))
      IN IF setMode /\ ~modeOk THEN [a EXCEPT !.ret = FALSE]
         ELSE IF flipOk
              THEN [b EXCEPT !.crtcNext = buffer, !.m_pageFlipPending = TRUE,
                             !.hwFlips = @ + 1, !.ret = TRUE]
              ELSE [b EXCEPT !.ret = FALSE]

\* Variant: no check of the pending DPMS mode.
present_NoDpmsCheck(w, buffer, t, r, needsModeChange) ==
    IF w.atomic THEN presentAtomically(w, buffer, t, r)
    ELSE presentLegacy(w, buffer, needsModeChange, t = "ok", r = "ok")

\* bool DrmOutput::present(DrmBuffer *buffer)
present(w, buffer, t, r, needsModeChange) ==
    IF w.m_dpmsModePending # "On" THEN [w EXCEPT !.ret = FALSE]
    ELSE IF w.atomic THEN presentAtomically(w, buffer, t, r)
    ELSE presentLegacy(w, buffer, needsModeChange, t = "ok", r = "ok")

\* bool DrmOutput::dpmsLegacyApply(); t = "ok" when
\* drmModeConnectorSetProperty succeeds.  Without a DPMS property the call
\* reads m_dpms->prop_id through a null pointer: the process is killed
\* (t = "late"), or the request goes out with whatever was read and the
\* kernel answers either way.
dpmsLegacyApply(w, t) ==
    IF ~w.hasDpms /\ t = "late"
    THEN [w EXCEPT !.crashed = TRUE, !.ret = FALSE]
    ELSE IF t # "ok"
    THEN [Ev(w, "setProperty.fail") EXCEPT !.m_dpmsModePending = w.m_dpmsMode,
                                           !.ret = FALSE]
    ELSE LET a == Ev(w, "setProperty.ok")
             b == IF a.m_dpmsModePending = "On" THEN dpmsFinishOn(a)
                  ELSE dpmsFinishOff(a)
         IN [b EXCEPT !.m_dpmsMode = b.m_dpmsModePending, !.ret = TRUE]

\* Variant: the off commit does not wait for a pending page flip.
updateDpms_NoDefer(w, mode, t, r) ==
    IF ~w.hasDpms \/ ~w.enabled THEN w
    ELSE IF mode = w.m_dpmsModePending THEN w
    ELSE
      LET a == [w EXCEPT !.m_dpmsModePending = mode]
      IN IF a.atomic
         THEN LET b == [a EXCEPT !.m_modesetRequested = TRUE]
              IN IF mode = "On"
                 THEN dpmsFinishOn([b EXCEPT !.m_atomicOffPending = FALSE])
                 ELSE dpmsAtomicOff([b EXCEPT !.m_atomicOffPending = TRUE], t, r)
         ELSE dpmsLegacyApply(a, t)

\* Variant: turning the output on leaves a deferred off request in place.
updateDpms_KeepDeferredOff(w, mode, t, r) ==
    IF ~w.hasDpms \/ ~w.enabled THEN w
    ELSE IF mode = w.m_dpmsModePending THEN w
    ELSE
      LET a == [w EXCEPT !.m_dpmsModePending = mode]
      IN IF a.atomic
         THEN LET b == [a EXCEPT !.m_modesetRequested = TRUE]
              IN IF mode = "On"
                 THEN dpmsFinishOn(b)
                 ELSE LET c == [b EXCEPT !.m_atomicOffPending = TRUE]
                      IN IF ~c.m_pageFlipPending THEN dpmsAtomicOff(c, t, r)
                         ELSE c
         ELSE dpmsLegacyApply(a, t)

\* Variant: the request is carried out on an output that is disabled or has
\* no DPMS property.
updateDpms_Unguarded(w, mode, t, r) ==
    IF mode = w.m_dpmsModePending THEN w
    ELSE
      LET a == [w EXCEPT !.m_dpmsModePending = mode]
      IN IF a.atomic
         THEN LET b == [a EXCEPT !.m_modesetRequested = TRUE]
              IN IF mode = "On"
                 THEN dpmsFinishOn([b EXCEPT !.m_atomicOffPending = FALSE])
                 ELSE LET c == [b EXCEPT !.m_atomicOffPending = TRUE]
                      IN IF ~c.m_pageFlipPending THEN dpmsAtomicOff(c, t, r)
                         ELSE c
         ELSE dpmsLegacyApply(a, t)

\* void DrmOutput::updateDpms(DpmsMode mode)
updateDpms(w, mode, t, r) ==
    IF ~w.hasDpms \/ ~w.enabled THEN w
    ELSE IF mode = w.m_dpmsModePending THEN w
    ELSE
      LET a == [w EXCEPT !.m_dpmsModePending = mode]
      IN IF a.atomic
         THEN LET b == [a EXCEPT !.m_modesetRequested = TRUE]
              IN IF mode = "On"
                 THEN dpmsFinishOn([b EXCEPT !.m_atomicOffPending = FALSE])
                 ELSE LET c == [b EXCEPT !.m_atomicOffPending = TRUE]
                      IN IF ~c.m_pageFlipPending THEN dpmsAtomicOff(c, t, r)
                         ELSE c
         ELSE dpmsLegacyApply(a, t)

\* void DrmOutput::atomicEnable()
atomicEnable(w) ==
    Ev([w EXCEPT !.m_modesetRequested = TRUE, !.m_atomicOffPending = FALSE],
       "addRepaintFull")

\* void DrmOutput::atomicDisable()
atomicDisable(w, t, r) ==
    LET a == [w EXCEPT !.m_modesetRequested = TRUE, !.m_atomicOffPending = TRUE]
    IN IF ~a.m_pageFlipPending THEN dpmsAtomicOff(a, t, r) ELSE a

\* void DrmOutput::updateEnablement(bool enable); DrmBackend::enableOutput
\* only keeps the backend's list of enabled outputs.
updateEnablement(w, enable, t, r) ==
    LET a == [w EXCEPT !.m_dpmsModePending = IF enable THEN "On" ELSE "Off"]
    IN IF a.atomic
       THEN (IF enable THEN atomicEnable(a) ELSE atomicDisable(a, t, r))
       ELSE dpmsLegacyApply(a, t)

\* The handler of Session::activeChanged, for the one output:
\* reactivate() un-inhibits the render loop of every output and asks for a
\* full repaint, deactivate() inhibits them.
reactivate(w) == Ev(Ev(w, "uninhibit"), "addRepaintFull")

deactivate(w) == Ev(w, "inhibit")

activeChanged(w, active) ==
    IF active THEN reactivate(w) ELSE deactivate(w)

\* the buffer flipping of pageFlipped()
flipBuffers(a) ==
    IF a.deleteBufferAfterPageFlip
    THEN (IF a.atomic
          THEN [FlipPlanes(a, a.flipList, TRUE) EXCEPT !.flipList = 0]
          ELSE crtcFlipBuffer(IF a.crtcNext = NullBuf
                              THEN ReadBuf(a, a.crtcCurrent) ELSE a))
    ELSE crtcFlipBuffer(IF a.atomic
                        THEN [FlipPlanes(a, a.flipList, FALSE) EXCEPT !.flipList = 0]
                        ELSE crtcFlipBuffer(a))

\* pageFlipped that leaves a queued DPMS-off request alone.
pageFlipped_IgnoreQueuedOff(w, t, r) ==
    LET a == [(IF w.m_pageFlipPending \/ ~w.atomic THEN w ELSE Ev(w, "assert"))
              EXCEPT !.m_pageFlipPending = FALSE]
    IN IF a.m_deleted THEN [a EXCEPT !.deleteLater = TRUE]
       ELSE IF a.deleteBufferAfterPageFlip /\ a.atomic /\ a.planeNext = NullBuf
       THEN ReadBuf(a, a.planeCurrent)
       ELSE flipBuffers(a)

\* void DrmOutput::pageFlipped(); t and r are the outcomes of the commits of
\* a deferred DPMS off.
pageFlipped(w, t, r) ==
    LET a == [(IF w.m_pageFlipPending \/ ~w.atomic THEN w ELSE Ev(w, "assert"))
              EXCEPT !.m_pageFlipPending = FALSE]
    IN IF a.m_deleted THEN [a EXCEPT !.deleteLater = TRUE]
       ELSE IF a.deleteBufferAfterPageFlip /\ a.atomic /\ a.planeNext = NullBuf
       THEN ReadBuf(a, a.planeCurrent)
       ELSE LET b == flipBuffers(a)
            IN IF b.m_atomicOffPending THEN dpmsAtomicOff(b, t, r) ELSE b

\* void DrmOutput::teardown()
teardown(w) ==
    IF w.m_deleted THEN w
    ELSE LET a == blank([w EXCEPT !.m_deleted = TRUE])
             b == IF a.atomic
                  THEN [(IF a.deleteBufferAfterPageFlip
                         THEN DeleteBuf(a, a.planeCurrent) ELSE a)
                        EXCEPT !.planeCurrent = NullBuf]
                  ELSE a
         IN IF ~b.m_pageFlipPending THEN [b EXCEPT !.deleteLater = TRUE] ELSE b

\* void DrmOutput::releaseGbm()
releaseGbm(w) ==
    ReadBuf(ReadBuf(w, w.crtcCurrent), IF w.atomic THEN w.planeCurrent ELSE NullBuf)

\* void EglGbmBackend::removeOutput(DrmOutput *), with cleanupOutput()
removeOutput(w) ==
    IF ~w.inBackend THEN w
    ELSE LET a == releaseGbm(w)
             b == IF a.eglSurface THEN Ev(a, "eglDestroySurface") ELSE a
         IN [b EXCEPT !.eglSurface = FALSE, !.inBackend = FALSE]

\* outputToPlaneTransform(transform)
outputToPlaneTransform(transform) ==
    IF transform = "Rotated180" THEN "Rotate180" ELSE "Rotate0"

\* void DrmOutput::updateTransform(Transform transform); the plane supports
\* every rotation of Transforms and none of them is a portrait one.
updateTransform(w, transform) ==
    [w EXCEPT !.planeTransformation =
                 IF w.atomic THEN outputToPlaneTransform(transform) ELSE @,
              !.m_modesetRequested = TRUE]

\* void DrmOutput::updateMode(int modeIndex)
updateMode(w, modeIndex) ==
    IF modeIndex = w.m_mode THEN w
    ELSE [w EXCEPT !.m_mode = modeIndex, !.m_modesetRequested = TRUE]

(* ------------------------------- actions ------------------------------- *)

Referenced(w) == {w.planeCurrent, w.planeNext, w.crtcCurrent, w.crtcNext}

\* An address no slot points to is free to be handed out again.
Collect(w) ==
    IF w.deleteBufferAfterPageFlip
    THEN [w EXCEPT !.bufs = [b \in Buffers |->
                               IF b \in Referenced(w) THEN w.bufs[b] ELSE "free"]]
    ELSE w

Start(w) == [w EXCEPT !.trace = <<>>, !.pre = <<>>, !.ret = TRUE, !.arg = "none"]

\* What became of an off request that waits for the pending flip: it is
\* "deferred" while m_atomicOffPending is set behind a pending flip,
\* "cancelled" from the handler that clears the flag while the flip is still
\* pending up to and including the handling of that flip's completion.
DeferredOff(w, name) ==
    IF w.m_atomicOffPending /\ w.m_pageFlipPending THEN "deferred"
    ELSE IF w.deferredOff = "deferred" /\ w.m_pageFlipPending THEN "cancelled"
    ELSE IF w.deferredOff = "cancelled" /\ w.op # "pageFlipped"
            /\ (w.m_pageFlipPending \/ name = "pageFlipped") THEN "cancelled"
    ELSE "none"

\* m_renderLoop after the inhibit() and uninhibit() calls of one handler, in
\* the order the handler made them (dpmsFinishOff, dpmsFinishOn).
RECURSIVE renderLoopAfter(_, _)
renderLoopAfter(loop, calls) ==
    IF calls = <<>> \/ loop = "untracked" THEN loop
    ELSE LET after ==
                 IF Head(calls) = "inhibit"
                 THEN IF loop = "running" THEN "inhibited"
                      ELSE IF loop = "inhibited" THEN "inhibitedTwice"
                      ELSE loop
                 ELSE IF Head(calls) = "uninhibit"
                 THEN IF loop = "inhibited" THEN "running"
                      ELSE IF loop = "running" THEN "uninhibitedRunning"
                      ELSE loop
                 ELSE loop
         IN renderLoopAfter(after, Tail(calls))

Finish(w, name) ==
    Collect([w EXCEPT !.op = name, !.deferredOff = DeferredOff(w, name),
                      !.renderLoop = renderLoopAfter(w.renderLoop, w.trace)])

\* The buffers the backend may hand to present(): a newly created
\* DrmSurfaceBuffer (EglGbmBackend::presentOnOutput), or a dumb buffer of the
\* swapchain that is in no slot.
Presentable(w) ==
    IF w.deleteBufferAfterPageFlip
    THEN {b \in Buffers : w.bufs[b] = "free"
                          /\ \A c \in Buffers : c < b => w.bufs[c] # "free"}
    ELSE Buffers \ Referenced(w)

Alive == ~drm.deleteLater /\ ~drm.crashed
InUse == Alive /\ ~drm.m_deleted

Present ==
    /\ InUse
    /\ drm.deleteBufferAfterPageFlip => drm.inBackend
    /\ \E b \in Presentable(drm), c \in CommitOutcomes,
          n \in (IF drm.atomic THEN {FALSE} ELSE BOOLEAN) :
         drm' = Finish(present([Start(drm) EXCEPT
                                    !.bufs[b] = "live",
                                    !.pre = <<drm.m_mode, drm.transform, drm.globalPos>>],
                               b, c[1], c[2], n), "present")
    /\ UNCHANGED <<items, itemEnv, scene, gl>>

PageFlipped ==
    /\ Alive /\ drm.hwFlips > 0
    /\ \E c \in CommitOutcomes :
         drm' = Finish(pageFlipped([Start(drm) EXCEPT !.hwFlips = @ - 1], c[1], c[2]),
                       "pageFlipped")
    /\ UNCHANGED <<items, itemEnv, scene, gl>>

UpdateDpms ==
    /\ InUse
    /\ \E mode \in DpmsModes, c \in CommitOutcomes :
         drm' = Finish(updateDpms([Start(drm) EXCEPT !.arg = mode],
                                  mode, c[1], c[2]), "updateDpms")
    /\ UNCHANGED <<items, itemEnv, scene, gl>>

\* AbstractWaylandOutput::setEnabled(enable) records the new state and calls
\* updateEnablement(enable) when it changes.
SetEnabled ==
    /\ InUse
    /\ \E c \in CommitOutcomes :
         drm' = Finish(updateEnablement([Start(drm) EXCEPT !.enabled = ~@],
                                        ~drm.enabled, c[1], c[2]), "setEnabled")
    /\ UNCHANGED <<items, itemEnv, scene, gl>>

Teardown ==
    /\ InUse
    /\ drm' = Finish(teardown(Start(drm)), "teardown")
    /\ UNCHANGED <<items, itemEnv, scene, gl>>

RemoveOutput ==
    /\ drm.inBackend
    /\ drm' = Finish(removeOutput(Start(drm)), "removeOutput")
    /\ UNCHANGED <<items, itemEnv, scene, gl>>

UpdateMode ==
    /\ InUse
    /\ \E m \in ModeIds : drm' = Finish(updateMode(Start(drm), m), "updateMode")
    /\ UNCHANGED <<items, itemEnv, scene, gl>>

\* AbstractWaylandOutput::applyChanges: setTransform(t); updateTransform(t)
SetTransform ==
    /\ InUse
    /\ \E tr \in Transforms :
         drm' = Finish(updateTransform([Start(drm) EXCEPT !.transform = tr], tr),
                       "setTransform")
    /\ UNCHANGED <<items, itemEnv, scene, gl>>

SetGlobalPos ==
    /\ InUse
    /\ \E pos \in Positions :
         drm' = Finish([Start(drm) EXCEPT !.globalPos = pos], "setGlobalPos")
    /\ UNCHANGED <<items, itemEnv, scene, gl>>

\* The session becomes inactive (a switch to another virtual terminal) or
\* active again; Session::activeChanged is emitted when the state changes.
SessionActiveChanged ==
    /\ InUse
    /\ drm' = Finish(activeChanged([Start(drm) EXCEPT !.sessionActive = ~@],
                                   ~drm.sessionActive), "activeChanged")
    /\ UNCHANGED <<items, itemEnv, scene, gl>>

\* No item exists, no scene paints and no frame is rendered while the output
\* is exercised.
NoItems == items = <<>> /\ itemEnv = <<>>
NoScene == scene = <<>>
NoBackend == gl = <<>>

Init ==
    /\ \E atomic \in BOOLEAN, del \in BOOLEAN : drm = DrmOutputInit(atomic, del)
    /\ NoItems /\ NoScene /\ NoBackend

\* The presentation state machine: presents, flip completions, DPMS and
\* enablement changes, mode changes, removal.
Next ==
    \/ Present
    \/ PageFlipped
    \/ UpdateDpms
    \/ SetEnabled
    \/ Teardown
    \/ RemoveOutput
    \/ UpdateMode

Spec == Init /\ [][Next]_vars

\* Mode setting with atomic mode-setting: mode, transform and position
\* changes, presents, flip completions and DPMS changes.
InitModeset ==
    /\ \E del \in BOOLEAN : drm = DrmOutputInit(TRUE, del)
    /\ NoItems /\ NoScene /\ NoBackend

NextModeset ==
    \/ Present
    \/ PageFlipped
    \/ UpdateDpms
    \/ UpdateMode
    \/ SetTransform
    \/ SetGlobalPos

SpecModeset == InitModeset /\ [][NextModeset]_vars

\* Power management and session switches: outputs with and without a DPMS
\* property, DPMS and enablement changes, presents and flip completions
\* while the session goes inactive and active again.
InitDpms ==
    /\ \E atomic \in BOOLEAN, has \in BOOLEAN :
          drm = [DrmOutputInit(atomic, FALSE) EXCEPT !.hasDpms = has]
    /\ NoItems /\ NoScene /\ NoBackend

NextDpms ==
    \/ Present
    \/ PageFlipped
    \/ UpdateDpms
    \/ SetEnabled
    \/ SessionActiveChanged

SpecDpms == InitDpms /\ [][NextDpms]_vars

(* ------------------- properties of the DRM output ---------------------- *)

Range(seq) == {seq[i] : i \in DOMAIN seq}

\* The commits and page flips a handler handed to the kernel.
KernelRequests ==
    {"test.on", "real.on", "test.off", "real.off", "setCrtc.ok", "setCrtc.fail",
     "pageFlip.ok", "pageFlip.fail",
     "busy.test.on", "busy.real.on", "busy.test.off", "busy.real.off",
     "busy.pageFlip.ok", "busy.pageFlip.fail"}

OffCommits == {"test.off", "real.off", "busy.test.off", "busy.real.off"}

Slots(w) == <<w.planeCurrent, w.planeNext, w.flipList, w.crtcCurrent, w.crtcNext>>

\* The last handler was a present() whose atomic test commit failed.
TestCommitFailed(w) ==
    /\ w.op = "present" /\ w.atomic
    /\ \/ w.trace = <<"alloc.fail">>
       \/ w.trace = <<"test.on", "rejected">>

\* C1: at most one commit is in flight per output: the kernel never owes
\* more than one flip event, and a present() called while a flip is pending
\* returns false, stages no buffer, hands nothing to the kernel and queues
\* nothing.
C1_OneCommitInFlight ==
    /\ [](drm.hwFlips <= 1)
    /\ [][(drm'.op = "present" /\ drm.m_pageFlipPending) =>
            /\ drm'.ret = FALSE
            /\ drm'.trace = <<>>
            /\ Slots(drm') = Slots(drm)
            /\ drm'.hwFlips = drm.hwFlips]_vars

\* A present() was refused while the flip of an accepted one is in flight.
C1_Witness ==
    /\ drm.op = "present" /\ drm.ret = FALSE
    /\ drm.m_pageFlipPending /\ drm.hwFlips = 1
    /\ drm.m_dpmsModePending = "On"

\* C2: with atomic mode-setting, as long as a page flip is pending no handler
\* other than pageFlipped() hands a DPMS-off commit to the kernel, and no
\* DPMS-off commit is ever handed over while the kernel still owes a flip
\* event.
C2_OffCommitAfterFlip ==
    /\ [](Range(drm.trace) \cap {"busy.test.off", "busy.real.off"} = {})
    /\ [][(drm.atomic /\ drm.m_pageFlipPending /\ drm'.op # "pageFlipped") =>
            Range(drm'.trace) \cap OffCommits = {}]_vars

\* updateDpms asked for a non-On mode during a pending flip: the off commit is
\* deferred.
C2_Witness ==
    /\ drm.op = "updateDpms" /\ drm.atomic
    /\ drm.m_pageFlipPending /\ drm.hwFlips = 1
    /\ drm.m_dpmsModePending # "On" /\ drm.m_atomicOffPending

\* C3 as stated: after a present() whose test commit failed, mode, transform
\* and global position are what they were when present() was entered.
C3_RoundTrip ==
    TestCommitFailed(drm) =>
        <<drm.m_mode, drm.transform, drm.globalPos>> = drm.pre

\* C3, amended: after a present() whose test commit failed, mode, transform
\* and global position are what they were when present() was entered if no
\* snapshot is valid, and the values of the snapshot if one is valid.
C3_SnapshotOrEntry ==
    TestCommitFailed(drm) =>
        LET lws == drm.m_lastWorkingState
        IN <<drm.m_mode, drm.transform, drm.globalPos>> =
             IF lws.valid THEN <<lws.mode, lws.transform, lws.globalPos>>
             ELSE drm.pre

\* A failed test commit after the mode, transform or position was changed
\* since the snapshot.
C3_Witness ==
    /\ TestCommitFailed(drm)
    /\ drm.m_lastWorkingState.valid
    /\ drm.pre # <<drm.m_mode, drm.transform, drm.globalPos>>

C5_RemovalWaitsForFlip ==
    [][(drm.hwFlips > 0 /\ drm'.op \in {"teardown", "removeOutput"}) =>
        /\ ~drm'.deleteLater
        /\ drm'.eglSurface = drm.eglSurface
        /\ "eglDestroySurface" \notin Range(drm'.trace)
        /\ \A b \in Buffers : drm.bufs[b] = "live" => drm'.bufs[b] = "live"]_vars

\* C6: no buffer is in both slots of the plane, no slot holds a deleted
\* buffer, and no buffer was read, committed or deleted after its deletion.
C6_BufferOwnership ==
    /\ ~drm.uaf
    /\ drm.planeCurrent # NullBuf => drm.planeCurrent # drm.planeNext
    /\ \A b \in Referenced(drm) \ {NullBuf} : drm.bufs[b] = "live"

\* A DPMS off deleted the buffer on screen: the slots are empty and the
\* address is free again.
C6_Witness ==
    /\ drm.atomic /\ drm.deleteBufferAfterPageFlip
    /\ "real.off" \in Range(drm.trace)
    /\ drm.m_dpmsMode # "On"
    /\ drm.planeCurrent = NullBuf /\ drm.planeNext = NullBuf
    /\ drm.m_lastWorkingState.valid

\* C7: a present() called while the pending DPMS mode is not On returns
\* false, stages no buffer and hands no commit or page flip to the kernel.
C7_NoPresentWhenDpmsOff ==
    [][(drm'.op = "present" /\ drm.m_dpmsModePending # "On") =>
        /\ drm'.ret = FALSE
        /\ Range(drm'.trace) \cap KernelRequests = {}
        /\ Slots(drm') = Slots(drm)
        /\ drm'.hwFlips = drm.hwFlips]_vars

\* A present() was refused on an idle output whose DPMS target is not On.
C7_Witness ==
    /\ drm.op = "present" /\ drm.ret = FALSE
    /\ drm.m_dpmsModePending # "On"
    /\ ~drm.m_pageFlipPending /\ drm.crtcNext = NullBuf

(***************************************************************************)
(*                              ITEM TREE                                  *)
(***************************************************************************)

\* Number of items.
MaxItems == 3

\* Number of operations on the items in one run.
MaxItemOps == 3

ItemIds == 1..MaxItems
NoItem == 0

\* The items are kept with the Scene::Window they belong to (m_window): the
\* window is the entry after the last item.
WindowSlot == MaxItems + 1

\* Coordinates and sizes handed to the setters.
Coords == {0, 1}
Sizes == {1, 2}

(* --------------------------------- QRect ------------------------------- *)

\* QRect(QPoint(x, y), QSize(w, h)): the corners, both inclusive.
QRect(x, y, w, h) == [x1 |-> x, y1 |-> y, x2 |-> x + w - 1, y2 |-> y + h - 1]

isNull(r) == r.x2 = r.x1 - 1 /\ r.y2 = r.y1 - 1

\* QRect::isEmpty()
Empty(r) == r.x2 < r.x1 \/ r.y2 < r.y1

translated(r, dx, dy) ==
    [x1 |-> r.x1 + dx, y1 |-> r.y1 + dy, x2 |-> r.x2 + dx, y2 |-> r.y2 + dy]

Min(a, b) == IF a < b THEN a ELSE b
Max(a, b) == IF a > b THEN a ELSE b

\* QRect::operator|: a null rectangle is skipped, the others are normalized
\* and bounded.
united(a, b) ==
    IF isNull(a) THEN b
    ELSE IF isNull(b) THEN a
    ELSE LET l1 == IF a.x2 - a.x1 + 1 < 0 THEN a.x2 ELSE a.x1
             r1 == IF a.x2 - a.x1 + 1 < 0 THEN a.x1 ELSE a.x2
             l2 == IF b.x2 - b.x1 + 1 < 0 THEN b.x2 ELSE b.x1
             r2 == IF b.x2 - b.x1 + 1 < 0 THEN b.x1 ELSE b.x2
             t1 == IF a.y2 - a.y1 + 1 < 0 THEN a.y2 ELSE a.y1
             b1 == IF a.y2 - a.y1 + 1 < 0 THEN a.y1 ELSE a.y2
             t2 == IF b.y2 - b.y1 + 1 < 0 THEN b.y2 ELSE b.y1
             b2 == IF b.y2 - b.y1 + 1 < 0 THEN b.y1 ELSE b.y2
         IN [x1 |-> Min(l1, l2), y1 |-> Min(t1, t2),
             x2 |-> Max(r1, r2), y2 |-> Max(b1, b2)]

(* ---------------------------------- Item ------------------------------- *)

\* An item after the member initializers, before the constructor sets the
\* parent.  destroyed tells that the destructor has run, so that the item
\* is no object any more.  connectedTo is the item whose updateBoundingRect slot the
\* xChanged, yChanged and boundingRectChanged signals are connected to.
NewItem ==
    [ m_x |-> 0, m_y |-> 0,
      m_width |-> 0, m_height |-> 0,
      m_implicitWidth |-> 0, m_implicitHeight |-> 0,
      m_widthValid |-> FALSE, m_heightValid |-> FALSE,
      m_parentItem |-> NoItem,
      m_childItems |-> <<>>,
      connectedTo |-> NoItem,
      m_boundingRect |-> QRect(0, 0, 0, 0),
      destroyed |-> FALSE ]

\* The Scene::Window of the items: the quad list it has cached (NoQuads for
\* nullptr), and the regions handed to addLayerRepaint during the last
\* call, in global coordinates.
NoQuads == [valid |-> FALSE, quads |-> <<>>]

NewWindow == [ cached_quad_list |-> NoQuads, repaints |-> <<>> ]

width(it, i) == IF it[i].m_widthValid THEN it[i].m_width ELSE it[i].m_implicitWidth
height(it, i) == IF it[i].m_heightValid THEN it[i].m_height ELSE it[i].m_implicitHeight

rect(it, i) == QRect(0, 0, width(it, i), height(it, i))

RECURSIVE unitedChildren(_, _, _, _)
\* for (Item *item : m_childItems)
\*     boundingRect |= item->boundingRect().translated(item->position());
unitedChildren(it, children, k, acc) ==
    IF k > Len(children) THEN acc
    ELSE LET c == children[k]
         IN unitedChildren(it, children, k + 1,
                united(acc, translated(it[c].m_boundingRect, it[c].m_x, it[c].m_y)))

RECURSIVE updateBoundingRect(_, _)
\* void Item::updateBoundingRect(); emit boundingRectChanged() runs the
\* connected slot, the updateBoundingRect() of the parent.
updateBoundingRect(it, i) ==
    LET boundingRect == unitedChildren(it, it[i].m_childItems, 1, rect(it, i))
    IN IF it[i].m_boundingRect # boundingRect
       THEN LET a == [it EXCEPT ![i].m_boundingRect = boundingRect]
            IN IF a[i].connectedTo # NoItem
               THEN updateBoundingRect(a, a[i].connectedTo) ELSE a
       ELSE it

\* emit xChanged() / yChanged()
emitMoved(it, i) ==
    IF it[i].connectedTo # NoItem THEN updateBoundingRect(it, it[i].connectedTo)
    ELSE it

RECURSIVE rootPosition(_, _)
\* QPoint Item::rootPosition() const
rootPosition(it, i) ==
    IF it[i].m_parentItem = NoItem THEN <<it[i].m_x, it[i].m_y>>
    ELSE LET parent == rootPosition(it, it[i].m_parentItem)
         IN <<it[i].m_x + parent[1], it[i].m_y + parent[2]>>

\* QRect Item::mapToGlobal(const QRect &rect) const
mapToGlobal(it, i, r) ==
    translated(r, rootPosition(it, i)[1], rootPosition(it, i)[2])

\* void Item::scheduleRepaint(const QRegion &region)
scheduleRepaint(it, i, region) ==
    [it EXCEPT ![WindowSlot].repaints = Append(@, mapToGlobal(it, i, region))]

\* void Item::discardQuads(): Scene::Window::discardQuads resets the cache
discardQuads(it) ==
    [it EXCEPT ![WindowSlot].cached_quad_list = NoQuads]

\* void Item::setX(int x)
setX(it, i, x) ==
    IF it[i].m_x = x THEN it
    ELSE LET a == scheduleRepaint(it, i, it[i].m_boundingRect)
             b == [a EXCEPT ![i].m_x = x]
             c == scheduleRepaint(b, i, b[i].m_boundingRect)
         IN emitMoved(discardQuads(c), i)

\* void Item::setY(int y)
setY(it, i, y) ==
    IF it[i].m_y = y THEN it
    ELSE LET a == scheduleRepaint(it, i, it[i].m_boundingRect)
             b == [a EXCEPT ![i].m_y = y]
             c == scheduleRepaint(b, i, b[i].m_boundingRect)
         IN emitMoved(discardQuads(c), i)

\* The changes of the size: scheduleRepaint(rect()), the assignments that
\* gave the items a, updateBoundingRect(), scheduleRepaint(rect()),
\* discardQuads().
resized(it, a, i) ==
    LET b == scheduleRepaint(it, i, rect(it, i))
        c == updateBoundingRect([b EXCEPT ![i] = a[i]], i)
    IN discardQuads(scheduleRepaint(c, i, rect(c, i)))

\* void Item::setWidth(int width)
setWidth(it, i, w) ==
    IF it[i].m_widthValid /\ it[i].m_width = w THEN it
    ELSE resized(it, [it EXCEPT ![i].m_widthValid = TRUE, ![i].m_width = w], i)

\* void Item::setImplicitWidth(int width)
setImplicitWidth(it, i, w) ==
    IF it[i].m_implicitWidth = w THEN it
    ELSE IF it[i].m_widthValid THEN [it EXCEPT ![i].m_implicitWidth = w]
    ELSE resized(it, [it EXCEPT ![i].m_implicitWidth = w], i)

resetWidth(it, i) ==
    LET a == [it EXCEPT ![i].m_widthValid = FALSE]
    IN setImplicitWidth(a, i, a[i].m_implicitWidth)

setHeight(it, i, h) ==
    IF it[i].m_heightValid /\ it[i].m_height = h THEN it
    ELSE resized(it, [it EXCEPT ![i].m_heightValid = TRUE, ![i].m_height = h], i)

setImplicitHeight(it, i, h) ==
    IF it[i].m_implicitHeight = h THEN it
    ELSE IF it[i].m_heightValid THEN [it EXCEPT ![i].m_implicitHeight = h]
    ELSE resized(it, [it EXCEPT ![i].m_implicitHeight = h], i)

resetHeight(it, i) ==
    LET a == [it EXCEPT ![i].m_heightValid = FALSE]
    IN setImplicitHeight(a, i, a[i].m_implicitHeight)

\* void Item::setPosition(const QPoint &point)
setPosition(it, i, x, y) ==
    LET xDirty == it[i].m_x # x
        yDirty == it[i].m_y # y
        moved == [it EXCEPT ![i].m_x = x, ![i].m_y = y]
        a == IF xDirty \/ yDirty
             THEN LET r == scheduleRepaint(it, i, it[i].m_boundingRect)
                      m == [r EXCEPT ![i].m_x = x, ![i].m_y = y]
                  IN discardQuads(scheduleRepaint(m, i, m[i].m_boundingRect))
             ELSE moved
        b == IF xDirty THEN emitMoved(a, i) ELSE a
    IN IF yDirty THEN emitMoved(b, i) ELSE b

\* void Item::setImplicitSize(const QSize &size)
setImplicitSize(it, i, w, h) ==
    LET widthDirty == it[i].m_implicitWidth # w /\ ~it[i].m_widthValid
        heightDirty == it[i].m_implicitHeight # h /\ ~it[i].m_heightValid
        a == [it EXCEPT ![i].m_implicitWidth = w, ![i].m_implicitHeight = h]
    IN IF widthDirty \/ heightDirty THEN resized(it, a, i) ELSE a

\* void Item::setSize(const QSize &size)
setSize(it, i, w, h) ==
    LET widthDirty == width(it, i) # w
        heightDirty == height(it, i) # h
        a == [it EXCEPT ![i].m_width = w, ![i].m_widthValid = TRUE,
                        ![i].m_height = h, ![i].m_heightValid = TRUE]
    IN IF widthDirty \/ heightDirty THEN resized(it, a, i) ELSE a

Contains(list, e) == \E k \in DOMAIN list : list[k] = e

\* QList::indexOf, counted from 1; 0 when the element is not in the list
indexOf(list, e) ==
    IF Contains(list, e)
    THEN CHOOSE k \in DOMAIN list :
             list[k] = e /\ \A j \in DOMAIN list : list[j] = e => k <= j
    ELSE 0

\* the list without its element k
removeAt(list, k) ==
    [j \in 1..(Len(list) - 1) |-> IF j < k THEN list[j] ELSE list[j + 1]]

\* QList::removeOne: removes the first occurrence
removeOne(list, e) ==
    IF Contains(list, e) THEN removeAt(list, indexOf(list, e)) ELSE list

\* the list with e as its element k
insertAt(list, k, e) ==
    [j \in 1..(Len(list) + 1) |->
        IF j < k THEN list[j] ELSE IF j = k THEN e ELSE list[j - 1]]

\* QList::move(from, to), positions counted from 1
move(list, from, to) == insertAt(removeAt(list, from), to, list[from])

\* void Item::addChild(Item *item), called on p
addChild(it, p, i) ==
    LET a == updateBoundingRect([it EXCEPT ![i].connectedTo = p,
                                           ![p].m_childItems = Append(@, i)], p)
        b == scheduleRepaint(a, p, translated(a[i].m_boundingRect,
                                              a[i].m_x, a[i].m_y))
    IN discardQuads(b)

\* void Item::removeChild(Item *item), called on p
removeChild(it, p, i) ==
    LET a == scheduleRepaint(it, p, translated(it[i].m_boundingRect,
                                               it[i].m_x, it[i].m_y))
        b == updateBoundingRect([a EXCEPT ![p].m_childItems = removeOne(@, i),
                                          ![i].connectedTo =
                                              IF @ = p THEN NoItem ELSE @], p)
    IN discardQuads(b)

\* void Item::setParentItem(Item *item)
setParentItem(it, i, item) ==
    IF it[i].m_parentItem = item THEN it
    ELSE LET a == IF it[i].m_parentItem # NoItem
                  THEN removeChild(it, it[i].m_parentItem, i) ELSE it
             b == [a EXCEPT ![i].m_parentItem = item]
         IN IF item # NoItem THEN addChild(b, item, i) ELSE b

\* Item::~Item()
destroyItem(it, i) == [setParentItem(it, i, NoItem) EXCEPT ![i].destroyed = TRUE]

\* A call on item i works on an object that has been destroyed: the item
\* itself, or the parent that m_parentItem points to.
Dangling(it, i) ==
    \/ it[i].destroyed
    \/ it[i].m_parentItem # NoItem /\ it[it[i].m_parentItem].destroyed

\* The Q_ASSERTs of removeChild and addChild that setParentItem(item) runs
\* into; they are compiled in without QT_NO_DEBUG.
setParentItemAsserts(it, i, item) ==
    /\ it[i].m_parentItem # item
    /\ \/ /\ it[i].m_parentItem # NoItem
          /\ ~Contains(it[it[i].m_parentItem].m_childItems, i)
       \/ /\ item # NoItem
          /\ Contains(setParentItem(it, i, NoItem)[item].m_childItems, i)

\* The early returns of stackBefore and stackAfter.
SiblingOk(it, i, sibling) ==
    /\ sibling # NoItem
    /\ it[sibling].m_parentItem # NoItem
    /\ it[sibling].m_parentItem = it[i].m_parentItem
    /\ sibling # i

\* The end of stackBefore and stackAfter: scheduleRepaint(boundingRect());
\* sibling->scheduleRepaint(sibling->boundingRect()); discardQuads();
restacked(it, i, sibling) ==
    LET a == scheduleRepaint(it, i, it[i].m_boundingRect)
    IN discardQuads(scheduleRepaint(a, sibling, a[sibling].m_boundingRect))

\* stackBefore that hands QList::move the index of the sibling whichever
\* side the item comes from.
stackBefore_SiblingIndex(it, i, sibling) ==
    IF ~SiblingOk(it, i, sibling) THEN it
    ELSE LET p == it[i].m_parentItem
             selfIndex == indexOf(it[p].m_childItems, i)
             siblingIndex == indexOf(it[p].m_childItems, sibling)
             a == [it EXCEPT ![p].m_childItems = move(@, selfIndex, siblingIndex)]
         IN IF selfIndex = siblingIndex - 1 THEN it
            ELSE restacked(a, i, sibling)

\* void Item::stackBefore(Item *sibling)
stackBefore(it, i, sibling) ==
    IF ~SiblingOk(it, i, sibling) THEN it
    ELSE LET p == it[i].m_parentItem
             selfIndex == indexOf(it[p].m_childItems, i)
             siblingIndex == indexOf(it[p].m_childItems, sibling)
             a == [it EXCEPT ![p].m_childItems =
                      move(@, selfIndex, IF selfIndex > siblingIndex
                                         THEN siblingIndex ELSE siblingIndex - 1)]
         IN IF selfIndex = siblingIndex - 1 THEN it
            ELSE restacked(a, i, sibling)

\* void Item::stackAfter(Item *sibling)
stackAfter(it, i, sibling) ==
    IF ~SiblingOk(it, i, sibling) THEN it
    ELSE LET p == it[i].m_parentItem
             selfIndex == indexOf(it[p].m_childItems, i)
             siblingIndex == indexOf(it[p].m_childItems, sibling)
             a == [it EXCEPT ![p].m_childItems =
                      move(@, selfIndex, IF selfIndex > siblingIndex
                                         THEN siblingIndex + 1 ELSE siblingIndex)]
         IN IF selfIndex = siblingIndex + 1 THEN it
            ELSE restacked(a, i, sibling)

\* stackBefore / stackAfter hands QList::move an index that is not in the
\* list (self or sibling is not among the children of the parent): the
\* behaviour is undefined.
stackOutOfRange(it, i, sibling, before) ==
    /\ SiblingOk(it, i, sibling)
    /\ LET list == it[it[i].m_parentItem].m_childItems
           selfIndex == indexOf(list, i)
           siblingIndex == indexOf(list, sibling)
       IN /\ selfIndex # (IF before THEN siblingIndex - 1 ELSE siblingIndex + 1)
          /\ selfIndex = 0 \/ siblingIndex = 0

\* The Q_ASSERT_X of stackChildren, compiled in without QT_NO_DEBUG.
stackChildrenAsserts(it, i, children) ==
    /\ Len(it[i].m_childItems) = Len(children)
    /\ \E k \in DOMAIN children : it[children[k]].m_parentItem # i

\* void Item::stackChildren(const QList<Item *> &children)
stackChildren(it, i, children) ==
    IF Len(it[i].m_childItems) # Len(children) THEN it
    ELSE discardQuads([it EXCEPT ![i].m_childItems = children])

RECURSIVE windowPosition(_, _)
\* QPoint Item::windowPosition() const
windowPosition(it, i) ==
    IF it[i].m_parentItem = NoItem THEN <<it[i].m_x, it[i].m_y>>
    ELSE LET parentPos == windowPosition(it, it[i].m_parentItem)
         IN <<parentPos[1] + it[i].m_x, parentPos[2] + it[i].m_y>>

\* the list in reverse order
reversed(list) == [k \in 1..Len(list) |-> list[Len(list) + 1 - k]]

RECURSIVE makeContentsQuads(_, _, _)
\* WindowQuadList Scene::Window::makeContentsQuads() const, from the stack
\* of items still to visit (its top is the last element) and the next id.
\* The shape of an item is its rect(); a quad is the id and the shape
\* mapped to the window.
makeContentsQuads(it, stack, id) ==
    IF stack = <<>> THEN <<>>
    ELSE LET item == stack[Len(stack)]
             rest == SubSeq(stack, 1, Len(stack) - 1)
             pos == windowPosition(it, item)
             quads == IF Empty(rect(it, item)) THEN <<>>
                      ELSE <<[id |-> id,
                              rect |-> translated(rect(it, item), pos[1], pos[2])]>>
         IN quads \o makeContentsQuads(it, rest \o reversed(it[item].m_childItems),
                                       id + 1)

\* Variant: the cached list is handed out however old it is, and built
\* once.
buildQuads_Fresh(it, surfaceItem, force) ==
    [it EXCEPT ![WindowSlot].cached_quad_list =
        [valid |-> TRUE, quads |-> makeContentsQuads(it, <<surfaceItem>>, 0)]]

\* WindowQuadList Scene::Window::buildQuads(bool force) const, for a window
\* without decoration and shadow whose quads no effect changes; the list
\* returned is the list cached afterwards.
buildQuads(it, surfaceItem, force) ==
    IF it[WindowSlot].cached_quad_list.valid /\ ~force THEN it
    ELSE [it EXCEPT ![WindowSlot].cached_quad_list =
             [valid |-> TRUE, quads |-> makeContentsQuads(it, <<surfaceItem>>, 0)]]

RECURSIVE deeperThan(_, _, _)
\* Some chain of child items below item i has n links.
deeperThan(it, i, n) ==
    \/ n = 0
    \/ \E k \in DOMAIN it[i].m_childItems :
          deeperThan(it, it[i].m_childItems[k], n - 1)

\* The child lists below item i lead back to an item on the way: the loop of
\* makeContentsQuads pushes items without end and the quad list grows until
\* the allocation of memory fails.
childLoop(it, i) == deeperThan(it, i, MaxItems)

(* ------------------------------- actions ------------------------------- *)

RECURSIVE Ancestors(_, _)
Ancestors(it, i) ==
    IF it[i].m_parentItem = NoItem THEN {}
    ELSE {it[i].m_parentItem} \cup Ancestors(it, it[i].m_parentItem)

\* The lists handed to stackChildren.
ChildLists == UNION {[1..n -> ItemIds] : n \in 0..(MaxItems - 1)}

\* The items among it; the remaining entry is their window.
ItemsOf(it) == DOMAIN it \ {WindowSlot}

\* A call starts with nothing handed to addLayerRepaint.
NewCall(it) == [it EXCEPT ![WindowSlot].repaints = <<>>]

ItemsRunning ==
    /\ ~itemEnv.aborted /\ ~itemEnv.ub
    /\ itemEnv.ops < MaxItemOps

\* The last call, kept when the calls are logged.
Logged(name, i, args) == IF itemEnv.logCalls THEN <<name, i, args>> ELSE <<>>

\* The call "name" on item i with arguments args gave the items it.
Called(it, name, i, args) ==
    /\ items' = it
    /\ itemEnv' = [itemEnv EXCEPT !.ops = @ + 1, !.op = Logged(name, i, args)]
    /\ UNCHANGED <<drm, scene, gl>>

\* The call ended the program (Q_ASSERT) or left defined behaviour.
Crashed(field, name, i, args) ==
    /\ itemEnv' = [itemEnv EXCEPT ![field] = TRUE, !.ops = @ + 1,
                                  !.op = Logged(name, i, args)]
    /\ UNCHANGED <<drm, items, scene, gl>>

SetX ==
    /\ ItemsRunning
    /\ \E i \in ItemIds, x \in Coords : Called(setX(NewCall(items), i, x), "setX", i, <<x>>)

SetY ==
    /\ ItemsRunning
    /\ \E i \in ItemIds, y \in Coords : Called(setY(NewCall(items), i, y), "setY", i, <<y>>)

SetPosition ==
    /\ ItemsRunning
    /\ \E i \in ItemIds, x \in Coords, y \in Coords :
         Called(setPosition(NewCall(items), i, x, y), "setPosition", i, <<x, y>>)

SetWidth ==
    /\ ItemsRunning
    /\ \E i \in ItemIds, w \in Sizes :
         Called(setWidth(NewCall(items), i, w), "setWidth", i, <<w>>)

SetHeight ==
    /\ ItemsRunning
    /\ \E i \in ItemIds, h \in Sizes :
         Called(setHeight(NewCall(items), i, h), "setHeight", i, <<h>>)

SetSize ==
    /\ ItemsRunning
    /\ \E i \in ItemIds, w \in Sizes, h \in Sizes :
         Called(setSize(NewCall(items), i, w, h), "setSize", i, <<w, h>>)

SetImplicitWidth ==
    /\ ItemsRunning
    /\ \E i \in ItemIds, w \in Sizes :
         Called(setImplicitWidth(NewCall(items), i, w), "setImplicitWidth", i, <<w>>)

SetImplicitHeight ==
    /\ ItemsRunning
    /\ \E i \in ItemIds, h \in Sizes :
         Called(setImplicitHeight(NewCall(items), i, h), "setImplicitHeight", i, <<h>>)

SetImplicitSize ==
    /\ ItemsRunning
    /\ \E i \in ItemIds, w \in Sizes, h \in Sizes :
         Called(setImplicitSize(NewCall(items), i, w, h), "setImplicitSize", i, <<w, h>>)

ResetWidth ==
    /\ ItemsRunning
    /\ \E i \in ItemIds : Called(resetWidth(NewCall(items), i), "resetWidth", i, <<>>)

ResetHeight ==
    /\ ItemsRunning
    /\ \E i \in ItemIds : Called(resetHeight(NewCall(items), i), "resetHeight", i, <<>>)

\* The new parent is no item of the subtree of i.
SetParentItem ==
    /\ ItemsRunning
    /\ \E i \in ItemIds, item \in ItemIds \cup {NoItem} :
         /\ item # i
         /\ item # NoItem => i \notin Ancestors(items, item)
         /\ IF Dangling(items, i) \/ (item # NoItem /\ items[item].destroyed)
            THEN Crashed("ub", "setParentItem", i, <<item>>)
            ELSE IF ~itemEnv.QT_NO_DEBUG /\ setParentItemAsserts(items, i, item)
            THEN Crashed("aborted", "setParentItem", i, <<item>>)
            ELSE Called(setParentItem(NewCall(items), i, item), "setParentItem", i, <<item>>)

\* delete item: the destructor of an item that has not been destroyed.  It
\* calls setParentItem(nullptr), which calls removeChild on the parent.
DestroyItem ==
    /\ ItemsRunning
    /\ \E i \in ItemIds :
         /\ ~items[i].destroyed
         /\ IF Dangling(items, i)
            THEN Crashed("ub", "~Item", i, <<>>)
            ELSE IF ~itemEnv.QT_NO_DEBUG /\ setParentItemAsserts(items, i, NoItem)
            THEN Crashed("aborted", "~Item", i, <<>>)
            ELSE Called(destroyItem(NewCall(items), i), "~Item", i, <<>>)

StackBefore ==
    /\ ItemsRunning
    /\ \E i \in ItemsOf(items), sibling \in ItemsOf(items) \cup {NoItem} :
         IF stackOutOfRange(items, i, sibling, TRUE)
         THEN Crashed("ub", "stackBefore", i, <<sibling>>)
         ELSE Called(stackBefore(NewCall(items), i, sibling), "stackBefore", i, <<sibling>>)

StackAfter ==
    /\ ItemsRunning
    /\ \E i \in ItemsOf(items), sibling \in ItemsOf(items) \cup {NoItem} :
         IF stackOutOfRange(items, i, sibling, FALSE)
         THEN Crashed("ub", "stackAfter", i, <<sibling>>)
         ELSE Called(stackAfter(NewCall(items), i, sibling), "stackAfter", i, <<sibling>>)

StackChildren ==
    /\ ItemsRunning
    /\ \E i \in ItemIds, children \in ChildLists :
         IF ~itemEnv.QT_NO_DEBUG /\ stackChildrenAsserts(items, i, children)
         THEN Crashed("aborted", "stackChildren", i, children)
         ELSE Called(stackChildren(NewCall(items), i, children), "stackChildren", i, children)

\* The scene asks for the quads of the window (prePaintWindow data), or an
\* effect has them rebuilt; item 1 is the surface item.
BuildQuads ==
    /\ ~itemEnv.aborted /\ ~itemEnv.ub
    /\ \E force \in BOOLEAN :
         IF (force \/ ~items[WindowSlot].cached_quad_list.valid) /\ childLoop(items, 1)
         THEN /\ itemEnv' = [itemEnv EXCEPT !.aborted = TRUE, !.op = <<>>]
              /\ UNCHANGED items
         ELSE /\ items' = buildQuads(NewCall(items), 1, force)
              /\ itemEnv' = [itemEnv EXCEPT !.op = <<"buildQuads", 1, <<force>>>>]
    /\ UNCHANGED <<drm, scene, gl>>

\* The items as their constructors leave them: every item is created with a
\* parent that exists already, or with none.
ConstructedItems ==
    {NewCall(setParentItem(setParentItem(
         [i \in ItemIds \cup {WindowSlot} |->
             IF i = WindowSlot THEN NewWindow ELSE NewItem], 2, p2), 3, p3)) :
        p2 \in {NoItem, 1}, p3 \in {NoItem, 1, 2}}

ItemEnvInit(nodebug, logCalls) ==
    [QT_NO_DEBUG |-> nodebug, logCalls |-> logCalls,
     aborted |-> FALSE, ub |-> FALSE, ops |-> 0, op |-> <<>>]

\* Geometry, reparenting and restacking of the items by stackBefore and
\* stackAfter.  No call of this specification can fail a Q_ASSERT, so the
\* build type makes no difference; the assertions are compiled in.
InitItem ==
    /\ drm = DrmOutputInit(TRUE, TRUE) /\ NoScene /\ NoBackend
    /\ items \in ConstructedItems
    /\ itemEnv = ItemEnvInit(FALSE, FALSE)

NextItem ==
    \/ SetX \/ SetY \/ SetPosition
    \/ SetWidth \/ SetHeight \/ SetSize
    \/ SetImplicitWidth \/ SetImplicitHeight \/ SetImplicitSize
    \/ ResetWidth \/ ResetHeight
    \/ SetParentItem \/ StackBefore \/ StackAfter

SpecItem == InitItem /\ [][NextItem]_vars

\* Reparenting and restacking, stackChildren included, in both build types
\* and with the calls logged.
InitStack ==
    /\ drm = DrmOutputInit(TRUE, TRUE) /\ NoScene /\ NoBackend
    /\ items \in ConstructedItems
    /\ \E nodebug \in BOOLEAN : itemEnv = ItemEnvInit(nodebug, TRUE)

NextStack ==
    \/ SetParentItem \/ StackBefore \/ StackAfter \/ StackChildren

SpecStack == InitStack /\ [][NextStack]_vars

\* Reparenting and destruction of the items, with the calls logged.
InitDestroy ==
    /\ drm = DrmOutputInit(TRUE, TRUE) /\ NoScene /\ NoBackend
    /\ items \in ConstructedItems
    /\ itemEnv = ItemEnvInit(FALSE, TRUE)

NextDestroy == SetParentItem \/ DestroyItem

SpecDestroy == InitDestroy /\ [][NextDestroy]_vars

\* The items that can be children of item 1: the other items and one
\* further item, so that a restacked pair has a third child beside it.
SiblingIds == (1..(WindowSlot + 1)) \ {1, WindowSlot}

RECURSIVE adopted(_, _)
\* The items after new Item(window, item 1) for each item of order in turn.
adopted(it, order) ==
    IF order = <<>> THEN it
    ELSE adopted(setParentItem(it, order[1], 1), Tail(order))

\* Item 1 with any of the other items as its children, in any order.
SiblingItems ==
    {NewCall(adopted([i \in 1..(WindowSlot + 1) |->
                         IF i = WindowSlot THEN NewWindow ELSE NewItem], order)) :
        order \in {o \in UNION {[1..n -> SiblingIds] :
                                   n \in 0..Cardinality(SiblingIds)} :
                      \A j, k \in DOMAIN o : j # k => o[j] # o[k]}}

\* Restacking among the children of one item by stackBefore and stackAfter,
\* with the calls logged.
InitRestack ==
    /\ drm = DrmOutputInit(TRUE, TRUE) /\ NoScene /\ NoBackend
    /\ items \in SiblingItems
    /\ itemEnv = ItemEnvInit(FALSE, TRUE)

NextRestack == StackBefore \/ StackAfter

SpecRestack == InitRestack /\ [][NextRestack]_vars

\* The quads of a window while its items change: the item tree of the
\* window, every item below the surface item, in a debug build.
InitQuads ==
    /\ drm = DrmOutputInit(TRUE, TRUE) /\ NoScene /\ NoBackend
    /\ items \in {it \in ConstructedItems :
                     \A i \in ItemIds \ {1} : it[i].m_parentItem # NoItem}
    /\ itemEnv = ItemEnvInit(FALSE, FALSE)

NextQuads ==
    \/ NextItem
    \/ StackChildren
    \/ BuildQuads

SpecQuads == InitQuads /\ [][NextQuads]_vars

(* --------------------- properties of the item tree --------------------- *)

\* rect() united with the bounding rects of the children, each translated
\* by the position of the child.
ExpectedBoundingRect(it, i) ==
    unitedChildren(it, it[i].m_childItems, 1, rect(it, i))

\* Two rectangles cover the same points of the plane: both are null, or
\* their corners are the same.  (The union of null rectangles only is the
\* last of them, so it depends on the order of the children.)
SameRect(a, b) == (isNull(a) /\ isNull(b)) \/ a = b

\* C8 as stated: after any sequence of the setters, resets, reparenting and
\* restacking, the boundingRect() of every item is its rect() united with
\* the translated bounding rects of its children.
C8_BoundingRectInvariant ==
    \A i \in ItemIds :
        SameRect(items[i].m_boundingRect, ExpectedBoundingRect(items, i))

Count(list, e) == Cardinality({k \in DOMAIN list : list[k] = e})

IsPermutation(a, b) ==
    /\ Len(a) = Len(b)
    /\ \A e \in ItemIds : Count(a, e) = Count(b, e)

\* C9 as stated: stackChildren(list) with a list that is no permutation of
\* the children of the item leaves the order of the children as it was.
C9_NonPermutationKeepsOrder ==
    [][(/\ Len(itemEnv'.op) = 3
        /\ itemEnv'.op[1] = "stackChildren"
        /\ ~IsPermutation(itemEnv'.op[3], items[itemEnv'.op[2]].m_childItems))
       => items'[itemEnv'.op[2]].m_childItems
              = items[itemEnv'.op[2]].m_childItems]_vars

(***************************************************************************)
(*                    SCENE: THE OPTIMIZED PAINT PATH                      *)
(***************************************************************************)

\* Width of the screen in pixels; the pixels are 0 .. ScreenWidth - 1, and
\* pixel ScreenWidth lies outside of the screen.  A region is a set of
\* pixels.
ScreenWidth == 2

\* Number of windows in the stacking order.
MaxWindows == 2

Pixels == 0..ScreenWidth
displayRegion == 0..(ScreenWidth - 1)
OffScreen == Pixels \ displayRegion

\* A region where infiniteRegion() is told apart from the regions of
\* pixels: infiniteRegion() itself, or a set of pixels.
Infinite == [infinite |-> TRUE, pixels |-> {}]
Finite(region) == [infinite |-> FALSE, pixels |-> region]

WindowIds == 1..MaxWindows

\* The shapes of the windows, in global coordinates: the whole screen, and
\* a part of it with the pixel outside.
Shapes == {displayRegion, Pixels \ {0}}

\* What the toplevel of a window answers: opacity() == 1.0, hasAlpha(), and
\* whether the opaque region of the surface is its whole shape or the part
\* of it on pixel 1.
Toplevels ==
    {[opacity1 |-> TRUE, hasAlpha |-> FALSE, opaqueAll |-> TRUE],
     [opacity1 |-> TRUE, hasAlpha |-> TRUE, opaqueAll |-> TRUE],
     [opacity1 |-> TRUE, hasAlpha |-> TRUE, opaqueAll |-> FALSE],
     [opacity1 |-> FALSE, hasAlpha |-> FALSE, opaqueAll |-> FALSE]}

\* The regions a window schedules for repaint, and the damage of a frame.
RepaintRegions == {{1}, OffScreen}
Damages == {{}, {0}, displayRegion}

\* Scene::Window: the toplevel, the shape of the surface item, whether
\* resetPaintingEnabled() leaves painting enabled, and m_repaints[0] (after
\* reallocRepaints()).
SceneWindow(toplevel, shape, shown) ==
    [toplevel |-> toplevel, shape |-> shape, shown |-> shown,
     m_repaints |-> Infinite]

\* bool Scene::Window::isOpaque() const
isOpaque(win) == win.toplevel.opacity1 /\ ~win.toplevel.hasAlpha

\* QRegion Scene::Window::repaints(int screen) const
repaints(win) ==
    IF win.m_repaints = Infinite THEN displayRegion ELSE win.m_repaints.pixels

\* void Scene::Window::addLayerRepaint(const QRegion &region), without
\* per-screen rendering
addLayerRepaint(win, region) ==
    [win EXCEPT !.m_repaints =
                    IF @ = Infinite THEN Infinite ELSE Finite(@.pixels \cup region)]

\* surfaceItem->opaque(), in global coordinates
opaque(win) == IF win.toplevel.opaqueAll THEN win.shape ELSE win.shape \cap {1}

\* The clip and the mask of a window in the first pass of paintSimpleScreen
\* (windows without decoration; no effect changes the data).  The mask is
\* given as "PAINT_WINDOW_OPAQUE is set, PAINT_WINDOW_TRANSLUCENT is not".
windowClip(win) ==
    IF isOpaque(win) THEN win.shape
    ELSE IF win.toplevel.hasAlpha /\ win.toplevel.opacity1
         THEN win.shape \cap opaque(win)
    ELSE {}

windowMaskOpaque(win) ==
    \/ isOpaque(win)
    \/ win.toplevel.hasAlpha /\ win.toplevel.opacity1 /\ opaque(win) = win.shape

\* void Scene::Window::resetRepaints(int screen)
resetRepaints(win) == [win EXCEPT !.m_repaints = Finite({})]

\* effects->prePaintWindow(...): the pre-paint hook of the effects, which may
\* schedule a repaint of the window for the next frame; hook is the region
\* it schedules, empty when it schedules none.
prePaintWindow(win, hook) ==
    IF hook = {} THEN win ELSE addLayerRepaint(win, hook)

\* No effect is loaded: no hook schedules anything.
NoHooks(windows) == [k \in DOMAIN windows |-> {}]

\* Variant: the repaints of the window are reset after its pre-paint hook.
preparedWindow_ResetLast(win, hook) == resetRepaints(prePaintWindow(win, hook))

\* What the loops over the stacking order do to m_repaints of a window:
\* resetRepaints(painted_screen), then effects->prePaintWindow.
preparedWindow(win, hook) == prePaintWindow(resetRepaints(win), hook)

RECURSIVE prePaintPass(_, _, _, _, _, _)
\* The first pass of paintSimpleScreen, bottom to top, from window k on:
\* the windows with their repaints reset and their pre-paint hooks run, the
\* dirty area and the phase 2 data.
prePaintPass(windows, region, k, dirtyArea, phase2data, hooks) ==
    IF k > Len(windows)
    THEN [windows |-> windows, dirtyArea |-> dirtyArea, phase2data |-> phase2data]
    ELSE LET win == windows[k]
             paint == region \cup repaints(win)
             reset == [windows EXCEPT ![k] = preparedWindow(win, hooks[k])]
         IN IF ~win.shown
            THEN prePaintPass(reset, region, k + 1, dirtyArea, phase2data, hooks)
            ELSE prePaintPass(reset, region, k + 1, dirtyArea \cup paint,
                     Append(phase2data,
                            [window |-> k, region |-> paint,
                             clip |-> windowClip(win),
                             maskOpaque |-> windowMaskOpaque(win)]), hooks)

\* The occlusion pass that also takes a window's own clip out of its region.
culledRegion_CullOwnClip(data, fullRepaint, allclips, upperTranslucentDamage) ==
    (IF fullRepaint THEN displayRegion
     ELSE data.region \cup upperTranslucentDamage)
        \ (allclips \cup (IF data.maskOpaque THEN data.clip ELSE {}))

\* The occlusion pass without the subtraction of the clips of higher windows.
culledRegion_KeepOccluded(data, fullRepaint, allclips, upperTranslucentDamage) ==
    IF fullRepaint THEN displayRegion
    ELSE data.region \cup upperTranslucentDamage

\* The region the occlusion culling pass leaves to one window: the damage,
\* less the parts a higher opaque window will draw.
culledRegion(data, fullRepaint, allclips, upperTranslucentDamage) ==
    (IF fullRepaint THEN displayRegion
     ELSE data.region \cup upperTranslucentDamage) \ allclips

RECURSIVE occlusionPass(_, _, _, _, _)
\* The occlusion culling pass, top to bottom, from entry i down.
occlusionPass(phase2data, i, fullRepaint, allclips, upperTranslucentDamage) ==
    IF i < 1 THEN [phase2data |-> phase2data, allclips |-> allclips]
    ELSE LET data == phase2data[i]
             region == culledRegion(data, fullRepaint, allclips,
                                    upperTranslucentDamage)
             clips == data.clip # {} /\ data.maskOpaque
         IN occlusionPass([phase2data EXCEPT ![i].region = region], i - 1,
                fullRepaint,
                IF clips THEN allclips \cup data.clip ELSE allclips,
                IF fullRepaint THEN upperTranslucentDamage
                ELSE IF clips
                     THEN upperTranslucentDamage \cup (region \ data.clip)
                     ELSE upperTranslucentDamage \cup region)

\* void Scene::paintWindow(...): the region it paints; empty when the window
\* is completely clipped.
paintWindow(region) == region \cap displayRegion

RECURSIVE paintPass(_, _, _, _)
\* The last pass, bottom to top, from entry i on: the regions handed to
\* paintWindow, and the windows painted with the regions painted.
paintPass(phase2data, i, paintedArea, painted) ==
    IF i > Len(phase2data)
    THEN [phase2data |-> phase2data, paintedArea |-> paintedArea,
          painted |-> painted]
    ELSE LET area == paintedArea \cup phase2data[i].region
         IN paintPass([phase2data EXCEPT ![i].region = area], i + 1, area,
                IF paintWindow(area) = {} THEN painted
                ELSE Append(painted, [window |-> phase2data[i].window,
                                      region |-> paintWindow(area)]))

\* void Scene::paintSimpleScreen(int orig_mask, const QRegion &region), in a
\* scene whose painted_region is region and whose m_paintScreenCount is 1.
\* The background fill without the subtraction of the opaque clips.
backgroundRegion_WholeDirtyArea(dirtyArea, allclips) == dirtyArea

\* The region of the background fill: the dirty area that no opaque window
\* covers.
backgroundRegion(dirtyArea, allclips) == dirtyArea \ allclips

\* Variant: the damage of the frame keeps the replayed repaint region.
damaged_region_WithReplay(fullRepaint, paintedArea, repaintClip) ==
    IF fullRepaint THEN displayRegion ELSE paintedArea

\* damaged_region at the end of paintSimpleScreen
damaged_region(fullRepaint, paintedArea, repaintClip) ==
    IF fullRepaint THEN displayRegion \ repaintClip
    ELSE paintedArea \ repaintClip

paintSimpleScreen(sc, backgroundFirst, region, repaint_region, hooks) ==
    LET p1 == prePaintPass(sc.windows, region, 1, region, <<>>, hooks)
        repaintClip == repaint_region \ p1.dirtyArea
        dirtyArea == p1.dirtyArea \cup repaint_region
        fullRepaint == dirtyArea = displayRegion
        p2 == occlusionPass(p1.phase2data, Len(p1.phase2data), fullRepaint,
                            {}, repaint_region)
        background == IF backgroundFirst THEN {}
                      ELSE backgroundRegion(dirtyArea, p2.allclips)
        p3 == paintPass(p2.phase2data, 1, background, <<>>)
    IN [windows |-> p1.windows,
        frame |-> [region |-> region,
                   fullRepaint |-> fullRepaint,
                   dirtyArea |-> dirtyArea,
                   culled |-> p2.phase2data,
                   allclips |-> p2.allclips,
                   background |-> IF backgroundFirst THEN Infinite
                                  ELSE Finite(background),
                   phase2data |-> p3.phase2data,
                   painted |-> p3.painted,
                   painted_region |-> IF fullRepaint THEN displayRegion
                                      ELSE region \cup p3.paintedArea,
                   damaged_region |-> damaged_region(fullRepaint, p3.paintedArea,
                                                    repaintClip)]]

\* m_expectedPresentTimestamp that takes every reported time.
expectedPresentTimestamp_Rewind(m_expectedPresentTimestamp, presentTime) ==
    presentTime

\* m_expectedPresentTimestamp after paintScreen has looked at presentTime,
\* renderLoop->nextPresentationTimestamp() in milliseconds.
expectedPresentTimestamp(m_expectedPresentTimestamp, presentTime) ==
    IF presentTime < m_expectedPresentTimestamp
    THEN m_expectedPresentTimestamp
    ELSE presentTime

\* The flags of the mask that send a frame to the generic path.
TransformedFlags ==
    {"PAINT_SCREEN_TRANSFORMED", "PAINT_SCREEN_WITH_TRANSFORMED_WINDOWS"}

\* The pixels of a region, infiniteRegion() holding every pixel.
pixelsOf(region) == IF region.infinite THEN Pixels ELSE region.pixels

RECURSIVE genericPrePaintPass(_, _, _, _)
\* The loop over the stacking order of paintGenericScreen, bottom to top,
\* from window k on: the windows with their repaints reset and their
\* pre-paint hooks run, and the phase 2 data.
genericPrePaintPass(windows, k, phase2, hooks) ==
    IF k > Len(windows) THEN [windows |-> windows, phase2 |-> phase2]
    ELSE LET win == windows[k]
             reset == [windows EXCEPT ![k] = preparedWindow(win, hooks[k])]
         IN genericPrePaintPass(reset, k + 1,
                IF ~win.shown THEN phase2
                ELSE Append(phase2, [window |-> k, region |-> Infinite,
                                     clip |-> {}, maskOpaque |-> isOpaque(win)]),
                hooks)

\* void Scene::paintGenericScreen(int orig_mask, const ScreenPaintData &), in
\* a scene whose painted_region is infiniteRegion() and whose
\* m_paintScreenCount is 1.  The background is painted over infiniteRegion()
\* once, before the windows, with and without PAINT_SCREEN_BACKGROUND_FIRST.
paintGenericScreen(sc, backgroundFirst, hooks) ==
    LET p1 == genericPrePaintPass(sc.windows, 1, <<>>, hooks)
    IN [windows |-> p1.windows,
        frame |-> [region |-> Pixels,
                   fullRepaint |-> TRUE,
                   dirtyArea |-> displayRegion,
                   culled |-> p1.phase2,
                   allclips |-> {},
                   background |-> Infinite,
                   phase2data |-> p1.phase2,
                   painted |-> [i \in DOMAIN p1.phase2 |->
                                  [window |-> p1.phase2[i].window,
                                   region |-> paintWindow(pixelsOf(p1.phase2[i].region))]],
                   painted_region |-> Pixels,
                   damaged_region |-> displayRegion]]

\* What finalPaintScreen gives back: the windows and the frame of the path
\* it took.
PathTaken(f, generic) == [f EXCEPT !.frame = @ @@ [generic |-> generic]]

\* Variant: only PAINT_SCREEN_TRANSFORMED sends a frame to the generic path.
finalPaintScreen_TransformedOnly(sc, mask, region, repaint, hooks) ==
    IF "PAINT_SCREEN_TRANSFORMED" \in mask
    THEN PathTaken(paintGenericScreen(sc, "PAINT_SCREEN_BACKGROUND_FIRST" \in mask,
                                      hooks), TRUE)
    ELSE PathTaken(paintSimpleScreen(sc, "PAINT_SCREEN_BACKGROUND_FIRST" \in mask,
                                     pixelsOf(region), repaint, hooks), FALSE)

\* void Scene::finalPaintScreen(int mask, const QRegion &region,
\* ScreenPaintData &data), called once in a frame.
finalPaintScreen(sc, mask, region, repaint, hooks) ==
    IF mask \cap TransformedFlags # {}
    THEN PathTaken(paintGenericScreen(sc, "PAINT_SCREEN_BACKGROUND_FIRST" \in mask,
                                      hooks), TRUE)
    ELSE PathTaken(paintSimpleScreen(sc, "PAINT_SCREEN_BACKGROUND_FIRST" \in mask,
                                     pixelsOf(region), repaint, hooks), FALSE)

\* void Scene::paintScreen(...).  effectsMask holds the flags that
\* effects->prePaintScreen sets in the mask (none when no effect is loaded),
\* hooks what effects->prePaintWindow schedules for each window.  The mask
\* after the call, the path taken, the update region and the valid region it
\* gives back are in the frame.
paintScreen(sc, presentTime, damage, repaint, effectsMask, hooks) ==
    LET prePainted == (IF damage = displayRegion THEN {}
                       ELSE {"PAINT_SCREEN_REGION"}) \cup effectsMask
        transformed == prePainted \cap TransformedFlags # {}
        mask == IF transformed THEN prePainted \ {"PAINT_SCREEN_REGION"}
                ELSE prePainted
        region == IF transformed THEN Infinite
                  ELSE IF "PAINT_SCREEN_REGION" \in mask
                       THEN Finite(damage \cap displayRegion)
                  ELSE Finite(displayRegion)
        expected == expectedPresentTimestamp(sc.m_expectedPresentTimestamp,
                                             presentTime)
        f == finalPaintScreen(sc, mask, region, repaint, hooks)
    IN [f EXCEPT !.frame = [f.frame EXCEPT !.region = pixelsOf(region)] @@
                           [updateRegion |-> f.frame.damaged_region,
                            validRegion |-> (pixelsOf(region)
                                                \cup f.frame.painted_region)
                                                \cap displayRegion,
                            presentTime |-> presentTime,
                            prePaintScreen |-> expected,
                            mask |-> mask,
                            paint |-> region,
                            hooks |-> hooks]] @@
       [m_expectedPresentTimestamp |-> expected]

(* ------------------------------- actions ------------------------------- *)

\* A window schedules a repaint of a region (Item::scheduleRepaint).  The
\* frame field holds what the last handler painted.
AddLayerRepaint ==
    /\ \E k \in DOMAIN scene.windows, region \in RepaintRegions :
         scene' = [scene EXCEPT !.windows[k] = addLayerRepaint(@, region),
                                !.frame = <<>>, !.op = "addLayerRepaint"]
    /\ UNCHANGED <<drm, items, itemEnv, gl>>

\* The compositor paints a frame.  PAINT_SCREEN_BACKGROUND_FIRST is a flag
\* that effects set, and none is loaded.
PaintScreen ==
    /\ \E presentTime \in scene.presentTimes, damage \in Damages,
          repaint \in {{}, displayRegion} :
         scene' = paintScreen(scene, presentTime, damage, repaint, {},
                              NoHooks(scene.windows)) @@
                      [op |-> "paintScreen", presentTimes |-> scene.presentTimes]
    /\ UNCHANGED <<drm, items, itemEnv, gl>>

SceneWindows ==
    {SceneWindow(t, sh, shown) : t \in Toplevels, sh \in Shapes, shown \in BOOLEAN}

\* The scene after its constructor, with the windows created since.
\* presentTimes are the times the render loop can report for a frame.
SceneInit(windows, presentTimes) ==
    [windows |-> windows, frame |-> <<>>, op |-> "init",
     m_expectedPresentTimestamp |-> 0, presentTimes |-> presentTimes]

\* The painting of the windows; the render loop reports one time.
InitScene ==
    /\ drm = DrmOutputInit(TRUE, TRUE) /\ NoItems /\ NoBackend
    /\ \E n \in 0..MaxWindows : \E windows \in [1..n -> SceneWindows] :
         scene = SceneInit(windows, {0})

NextScene == AddLayerRepaint \/ PaintScreen

SpecScene == InitScene /\ [][NextScene]_vars

\* Latest presentation time, in milliseconds, that the render loop reports.
MaxPresentTime == 2

\* The frames of a scene of one window, the render loop reporting any time
\* for any frame.
InitFrames ==
    /\ drm = DrmOutputInit(TRUE, TRUE) /\ NoItems /\ NoBackend
    /\ \E windows \in [{1} -> SceneWindows] :
         scene = SceneInit(windows, 0..MaxPresentTime)

NextFrames == AddLayerRepaint \/ PaintScreen

SpecFrames == InitFrames /\ [][NextFrames]_vars

(* ----------------------- properties of the scene ----------------------- *)

\* The last handler painted a frame in which the topmost painted window is
\* opaque and its clip covers the screen.
OpaqueTopCoversScreen ==
    /\ scene.op = "paintScreen"
    /\ Len(scene.frame.culled) > 0
    /\ LET top == scene.frame.culled[Len(scene.frame.culled)]
       IN top.maskOpaque /\ displayRegion \subseteq top.clip

\* The windows of the last frame below the topmost painted one.
Below == 1..(Len(scene.frame.culled) - 1)

WasPainted(window) ==
    \E j \in DOMAIN scene.frame.painted : scene.frame.painted[j].window = window

\* C10 as stated: under an opaque top window that covers the screen, the
\* paint region of every window below is empty (the region the occlusion
\* pass leaves and the region handed to paintWindow), and none of them is
\* painted.
C10_RegionBelowEmpty ==
    OpaqueTopCoversScreen =>
        \A i \in Below :
            /\ scene.frame.culled[i].region = {}
            /\ scene.frame.phase2data[i].region = {}
            /\ ~WasPainted(scene.frame.culled[i].window)

\* C10, amended: under an opaque top window that covers the screen, the
\* paint region of every window below has no pixel of the screen, and none
\* of them is painted.
C10_NothingBelowOnScreen ==
    OpaqueTopCoversScreen =>
        \A i \in Below :
            /\ scene.frame.culled[i].region \cap displayRegion = {}
            /\ scene.frame.phase2data[i].region \cap displayRegion = {}
            /\ ~WasPainted(scene.frame.culled[i].window)

\* A frame with a window below an opaque top window that covers the screen,
\* whose paint region has a pixel outside of the screen; the top window is
\* painted.
C10_Witness ==
    /\ OpaqueTopCoversScreen
    /\ Len(scene.frame.culled) = 2
    /\ scene.frame.culled[1].region # {}
    /\ WasPainted(scene.frame.culled[2].window)

\* The last handler painted a frame of a stacking order that holds a single
\* window, which is opaque and whose clip is the rectangle of the screen.
SingleOpaqueWindow ==
    /\ scene.op = "paintScreen"
    /\ Len(scene.windows) = 1
    /\ Len(scene.frame.culled) = 1
    /\ scene.frame.culled[1].maskOpaque
    /\ scene.frame.culled[1].clip = displayRegion

\* C11 as stated: with a single opaque window whose clip is the rectangle of
\* the screen, the background is filled over the empty region and the painted
\* region of the frame is the rectangle of the screen.
C11_FullScreenPainted ==
    SingleOpaqueWindow =>
        /\ scene.frame.background = Finite({})
        /\ scene.frame.painted_region = displayRegion

\* C11, amended: with such a window the background fill has no pixel of the
\* screen; the painted region of the frame is the rectangle of the screen
\* when the dirty area of the frame is, and the dirty area otherwise.
C11_DirtyAreaPainted ==
    SingleOpaqueWindow =>
        /\ ~scene.frame.background.infinite
        /\ scene.frame.background.pixels \cap displayRegion = {}
        /\ scene.frame.painted_region =
              (IF scene.frame.dirtyArea = displayRegion THEN displayRegion
               ELSE scene.frame.dirtyArea)

\* The first frame of a single opaque window that covers the screen: the
\* background fill is empty and the whole screen is painted.
C11_Witness ==
    /\ SingleOpaqueWindow
    /\ scene.frame.background = Finite({})
    /\ scene.frame.painted_region = displayRegion
    /\ WasPainted(1)

(***************************************************************************)
(*          OPENGL BACKENDS: DAMAGE HISTORY AND BUFFER AGE                 *)
(***************************************************************************)

\* The number of entries above which an entry is dropped before one is added.
HistoryLimit == 10

\* The largest buffer age eglQuerySurface reports.
MaxBufferAge == 3

\* The buffer ages accumulatedDamageHistory is asked for.
Ages == (0 - 1)..(HistoryLimit + 2)

\* The regions handed to addToDamageHistory, and the damaged regions handed
\* to endFrame: nothing, or a pixel of the output and the pixel outside.
RecordedRegions == {{0}, {1}}
FrameDamages == {{}, {0} \cup OffScreen}

\* output->geometry(): the one output is the whole screen.
geometry == displayRegion

prepend(list, e) == <<e>> \o list
removeLast(list) == SubSeq(list, 1, Len(list) - 1)

\* The history as addToDamageHistory and the endFrame functions extend it.
pushDamage(history, region) ==
    prepend(IF Len(history) > HistoryLimit THEN removeLast(history) ELSE history,
            region)

RECURSIVE unitedFirst(_, _)
\* for (int i = 0; i < n; i++) region |= history[i];
unitedFirst(history, n) ==
    IF n <= 0 THEN {} ELSE unitedFirst(history, n - 1) \cup history[n]

\* The replay of the whole history, whatever the age.
replayedDamage_WholeHistory(history, bufferAge) ==
    IF bufferAge > 0 /\ bufferAge <= Len(history)
    THEN unitedFirst(history, Len(history))
    ELSE geometry

\* The replay of the history with one entry too many.
replayedDamage_OneMore(history, bufferAge) ==
    IF bufferAge > 0 /\ bufferAge <= Len(history)
    THEN unitedFirst(history, bufferAge)
    ELSE geometry

\* The region to repair in a buffer of the given age: the damage of the
\* frames since it was rendered, or everything.
replayedDamage(history, bufferAge) ==
    IF bufferAge > 0 /\ bufferAge <= Len(history)
    THEN unitedFirst(history, bufferAge - 1)
    ELSE geometry

\* The backend after its construction.  kind: "opengl" - the damage history
\* of OpenGLBackend itself; "gbm" - an output of EglGbmBackend (primary GPU,
\* no direct scanout); "wayland" - an output of EglWaylandBackend.
BackendInit(kind, bufferAge, swapWithDamage) ==
    [ kind |-> kind,
      supportsBufferAge |-> bufferAge,
      supportsSwapBuffersWithDamage |-> swapWithDamage,
      damageHistory |-> <<>>,
      bufferAge |-> 0,
      aborted |-> FALSE,
      \* observation: the last call, its argument, the region or the answer
      \* it gave and the calls it made
      op |-> "init", arg |-> {}, region |-> {}, ok |-> TRUE, trace |-> <<>> ]

Did(g, e) == [g EXCEPT !.trace = Append(@, e)]

\* void OpenGLBackend::addToDamageHistory(const QRegion &region)
addToDamageHistory(g, region) ==
    [g EXCEPT !.damageHistory = pushDamage(@, region)]

\* QRegion OpenGLBackend::accumulatedDamageHistory(int bufferAge) const
accumulatedDamageHistory(g, bufferAge) ==
    replayedDamage(g.damageHistory, bufferAge)

\* QRegion EglGbmBackend::prepareRenderingForOutput(Output &output) const,
\* called by beginFrame on the primary GPU.
prepareRenderingForOutput(g) ==
    IF g.supportsBufferAge THEN replayedDamage(g.damageHistory, g.bufferAge)
    ELSE geometry

\* QRegion EglWaylandBackend::beginFrame(int screenId)
EglWaylandBackend_beginFrame(g) ==
    IF g.supportsBufferAge THEN replayedDamage(g.damageHistory, g.bufferAge)
    ELSE {}

\* The swaps an EglGbmBackend frame can end with.  With
\* supportsSwapBuffersWithDamage() the rectangles come from
\* damageHistory.constFirst(), which is undefined on an empty history: the
\* program stops there, or swaps with whatever it read.
SwapOutcomes(g) ==
    IF g.supportsSwapBuffersWithDamage /\ g.damageHistory = <<>>
    THEN {"abort", "garbage.ok", "garbage.fail"}
    ELSE {"ok", "fail"}

\* bool EglGbmBackend::presentOnOutput(Output &output, const QRegion &damagedRegion)
\* swap: how the swap ends; presented: what m_backend->present() answers;
\* age: what eglQuerySurface reports.
presentOnOutput(g, swap, presented, age) ==
    IF swap = "abort" THEN [g EXCEPT !.aborted = TRUE, !.ok = FALSE]
    ELSE IF swap \in {"fail", "garbage.fail"}
    THEN [Did(g, "swap.fail") EXCEPT !.ok = FALSE]
    ELSE LET a == Did(Did(g, "swap"), "outputChange") IN
         IF ~presented THEN [Did(a, "present.fail") EXCEPT !.ok = FALSE]
         ELSE [Did(a, "present") EXCEPT
                   !.bufferAge = IF g.supportsBufferAge THEN age ELSE @,
                   !.ok = TRUE]

\* The frame end that leaves the history alone when the present fails.
EglGbmBackend_endFrame_KeepHistory(g, damagedRegion, swap, presented, age) ==
    LET p == presentOnOutput(g, swap, presented, age) IN
    IF p.aborted THEN p
    ELSE IF ~p.ok THEN Did(p, "notifyFrameFailed")
    ELSE IF g.supportsBufferAge
         THEN [p EXCEPT !.damageHistory =
                            pushDamage(@, damagedRegion \cap geometry)]
         ELSE p

\* void EglGbmBackend::endFrame(int screenId, const QRegion &renderedRegion,
\*                              const QRegion &damagedRegion)
EglGbmBackend_endFrame(g, damagedRegion, swap, presented, age) ==
    LET p == presentOnOutput(g, swap, presented, age) IN
    IF p.aborted THEN p
    ELSE IF ~p.ok
         THEN Did([p EXCEPT !.damageHistory = <<>>], "notifyFrameFailed")
    ELSE IF g.supportsBufferAge
         THEN [p EXCEPT !.damageHistory =
                            pushDamage(@, damagedRegion \cap geometry)]
         ELSE p

\* void EglWaylandBackend::presentOnSurface(EglWaylandOutput *output,
\*                                          const QRegion &damage)
\* A failed swap is logged only.
presentOnSurface(g, swapped, age) ==
    LET a == Did(Did(g, "outputChange"), IF swapped THEN "swap" ELSE "swap.fail")
    IN [a EXCEPT !.bufferAge = IF g.supportsBufferAge THEN age ELSE @,
                 !.ok = TRUE]

\* void EglWaylandBackend::endFrame(int screenId, const QRegion &renderedRegion,
\*                                  const QRegion &damagedRegion)
EglWaylandBackend_endFrame(g, damagedRegion, swapped, age) ==
    LET damage == damagedRegion \cap geometry
        p == presentOnSurface(g, swapped, age)
    IN IF g.supportsBufferAge
       THEN [p EXCEPT !.damageHistory = pushDamage(@, damage)]
       ELSE p

\* void EglWaylandBackend::screenGeometryChanged(const QSize &size)
screenGeometryChanged(g) == [g EXCEPT !.bufferAge = 0]

(* ------------------------------- actions ------------------------------- *)

Enter(g, name, arg) ==
    [g EXCEPT !.op = name, !.arg = arg, !.region = {}, !.ok = TRUE, !.trace = <<>>]

BackendRunning == ~gl.aborted

AddToDamageHistory ==
    /\ BackendRunning /\ gl.kind = "opengl"
    /\ \E region \in RecordedRegions :
         gl' = addToDamageHistory(Enter(gl, "addToDamageHistory", region), region)
    /\ UNCHANGED <<drm, items, itemEnv, scene>>

AccumulatedDamageHistory ==
    /\ BackendRunning /\ gl.kind = "opengl"
    /\ \E bufferAge \in Ages :
         gl' = [Enter(gl, "accumulatedDamageHistory", {bufferAge}) EXCEPT
                    !.region = accumulatedDamageHistory(gl, bufferAge)]
    /\ UNCHANGED <<drm, items, itemEnv, scene>>

BeginFrame ==
    /\ BackendRunning /\ gl.kind \in {"gbm", "wayland"}
    /\ gl' = [Enter(gl, "beginFrame", {}) EXCEPT
                  !.region = IF gl.kind = "gbm" THEN prepareRenderingForOutput(gl)
                             ELSE EglWaylandBackend_beginFrame(gl)]
    /\ UNCHANGED <<drm, items, itemEnv, scene>>

EndFrame ==
    /\ BackendRunning /\ gl.kind \in {"gbm", "wayland"}
    /\ \E damagedRegion \in FrameDamages, age \in 0..MaxBufferAge :
         LET g == Enter(gl, "endFrame", damagedRegion) IN
         IF gl.kind = "gbm"
         THEN \E swap \in SwapOutcomes(gl), presented \in BOOLEAN :
                /\ (swap \notin {"ok", "garbage.ok"} => presented)
                /\ gl' = EglGbmBackend_endFrame(g, damagedRegion, swap,
                                                presented, age)
         ELSE \E swapped \in BOOLEAN :
                gl' = EglWaylandBackend_endFrame(g, damagedRegion, swapped, age)
    /\ UNCHANGED <<drm, items, itemEnv, scene>>

ScreenGeometryChanged ==
    /\ BackendRunning /\ gl.kind = "wayland"
    /\ gl' = screenGeometryChanged(Enter(gl, "screenGeometryChanged", {}))
    /\ UNCHANGED <<drm, items, itemEnv, scene>>

InitBackend ==
    /\ drm = DrmOutputInit(TRUE, TRUE) /\ NoItems /\ NoScene
    /\ \E kind \in {"opengl", "gbm", "wayland"}, age \in BOOLEAN, swd \in BOOLEAN :
         /\ (kind # "gbm" => ~swd)
         /\ (kind = "opengl" => age)
         /\ gl = BackendInit(kind, age, swd)

NextBackend ==
    \/ AddToDamageHistory
    \/ AccumulatedDamageHistory
    \/ BeginFrame
    \/ EndFrame
    \/ ScreenGeometryChanged

SpecBackend == InitBackend /\ [][NextBackend]_vars

(* --------------------- properties of the backends ---------------------- *)

\* The last call asked for the damage to replay into a buffer: the age it
\* asked for (accumulatedDamageHistory), or the age of the buffer of the
\* output (beginFrame with buffer age support).
AskedReplay ==
    \/ gl.op = "accumulatedDamageHistory"
    \/ gl.op = "beginFrame" /\ gl.supportsBufferAge

AskedAge ==
    IF gl.op = "accumulatedDamageHistory" THEN CHOOSE a \in gl.arg : TRUE
    ELSE gl.bufferAge

\* C12: for 0 < age <= length of the history the answer is the union of the
\* age - 1 most recent entries, and for every other age it is the rectangle
\* of the output.
C12_ReplaysAgeMinusOne ==
    AskedReplay =>
        gl.region =
            (IF AskedAge > 0 /\ AskedAge <= Len(gl.damageHistory)
             THEN UNION {gl.damageHistory[i] : i \in 1..(AskedAge - 1)}
             ELSE displayRegion)

\* accumulatedDamageHistory(3) on a history whose two most recent entries
\* are one pixel and whose third is the other gave the first pixel alone.
C12_Witness ==
    /\ gl.op = "accumulatedDamageHistory" /\ gl.arg = {3}
    /\ Len(gl.damageHistory) >= 3
    /\ gl.damageHistory[1] = {0} /\ gl.damageHistory[2] = {0}
    /\ gl.damageHistory[3] = {1}
    /\ gl.region = {0}

\* C13 as stated: the damage replayed for age 1 is the empty region,
\* whatever the history.
C13_AgeOneEmpty ==
    (AskedReplay /\ AskedAge = 1) => gl.region = {}

\* C13, amended: the damage replayed for age 1 is the empty region when the
\* history holds an entry, and the rectangle of the output when it holds
\* none.
C13_AgeOneEmptyUnlessNoHistory ==
    (AskedReplay /\ AskedAge = 1) =>
        gl.region = (IF gl.damageHistory = <<>> THEN displayRegion ELSE {})

\* Age 1 was asked for on a history whose most recent entry is not empty,
\* and the answer was the empty region.
C13_Witness ==
    /\ AskedReplay /\ AskedAge = 1
    /\ gl.damageHistory # <<>> /\ gl.damageHistory[1] # {}
    /\ gl.region = {}

\* C14 as stated: the history never holds more than 10 entries, and an
\* entry added to a history of 10 drops the oldest one.
C14_HistoryCapped ==
    /\ [](Len(gl.damageHistory) <= HistoryLimit)
    /\ [][(/\ gl'.op \in {"addToDamageHistory", "endFrame"}
            /\ Len(gl.damageHistory) = HistoryLimit
            /\ gl'.damageHistory # <<>>
            /\ gl'.damageHistory # gl.damageHistory)
           => /\ Len(gl'.damageHistory) = HistoryLimit
              /\ SubSeq(gl'.damageHistory, 2, HistoryLimit)
                    = SubSeq(gl.damageHistory, 1, HistoryLimit - 1)]_vars

\* C15 as stated: an endFrame with an empty damaged region swaps and
\* presents nothing and leaves the buffer age of the output at 1.
C15_EmptyDamageNotPresented ==
    [][(gl'.op = "endFrame" /\ gl'.arg = {} /\ ~gl'.aborted) =>
          /\ \A i \in DOMAIN gl'.trace :
                gl'.trace[i] \notin {"swap", "swap.fail", "present", "present.fail"}
          /\ gl'.bufferAge = 1]_vars

\* C16: when the present of an EglGbmBackend frame fails, the damage history
\* of the output is cleared and the render loop is told that the frame
\* failed, and a beginFrame that follows gives the rectangle of the output.
C16_FailedFrameForcesFullRepaint ==
    [][/\ (gl.kind = "gbm" /\ gl'.op = "endFrame" /\ ~gl'.ok /\ ~gl'.aborted)
          => /\ gl'.damageHistory = <<>>
             /\ gl'.trace[Len(gl'.trace)] = "notifyFrameFailed"
       /\ (gl.kind = "gbm" /\ gl.op = "endFrame" /\ ~gl.ok /\ ~gl.aborted
              /\ gl'.op = "beginFrame")
          => gl'.region = displayRegion]_vars

\* The present of a frame was refused on an output that had presented
\* frames before: the history is empty and the render loop was told.
C16_Witness ==
    /\ gl.kind = "gbm" /\ gl.supportsBufferAge
    /\ gl.op = "endFrame" /\ ~gl.ok
    /\ gl.bufferAge = 2
    /\ gl.trace = <<"swap", "outputChange", "present.fail", "notifyFrameFailed">>
    /\ gl.damageHistory = <<>>

(* ------------------- DPMS requests of the DRM output ------------------- *)

\* A request to turn the output on that is accepted: updateDpms(On) that
\* changes the pending target, or the output being enabled.
AcceptedOn ==
    /\ drm'.op \in {"updateDpms", "setEnabled"}
    /\ drm.enabled \/ drm'.op = "setEnabled"
    /\ drm.m_dpmsModePending # "On"
    /\ drm'.m_dpmsModePending = "On"

\* C17: when an off request was deferred behind a pending flip and a request
\* to turn the output on is accepted before that flip completes, the
\* deferred off is cancelled, and handling the flip's completion issues no
\* DPMS-off commit.
C17_DeferredOffCancelled ==
    /\ [][(AcceptedOn /\ drm.deferredOff = "deferred")
            => /\ drm'.deferredOff = "cancelled"
               /\ ~drm'.m_atomicOffPending
               /\ OffCommits \cap Range(drm'.trace) = {}]_vars
    /\ []((drm.op = "pageFlipped" /\ drm.deferredOff = "cancelled")
            => OffCommits \cap Range(drm.trace) = {})

\* The completion of a flip has been handled after an off request that
\* waited for it was cancelled by a request to turn the output on.
C17_Witness ==
    /\ drm.op = "pageFlipped"
    /\ drm.deferredOff = "cancelled"
    /\ drm.m_dpmsModePending = "On"
    /\ ~drm.m_pageFlipPending
    /\ OffCommits \cap Range(drm.trace) = {}

\* updateDpms(On) got past its guards: the output has a DPMS property, is
\* enabled, and its pending target is not On.
UpdateDpmsOnAccepted ==
    /\ drm'.op = "updateDpms" /\ drm'.arg = "On"
    /\ drm.hasDpms /\ drm.enabled
    /\ drm.m_dpmsModePending # "On"

\* The commits that turn the output on: the atomic commit with the output
\* active, and the legacy DPMS property being set.
OnCommits == {"real.on", "busy.real.on", "setProperty.ok"}

InOrder(trace, first, second, third) ==
    \E i, j, k \in DOMAIN trace :
        /\ i < j /\ j < k
        /\ trace[i] \in first /\ trace[j] = second /\ trace[k] = third

\* C18 as stated: an accepted updateDpms(On) issues the DPMS-on commit,
\* un-inhibits the output's repaint scheduling and after that requests a
\* full-screen repaint.
C18_OnCommitsThenRepaints ==
    [][UpdateDpmsOnAccepted
        => InOrder(drm'.trace, OnCommits, "uninhibit", "addRepaintFull")]_vars

\* C18, amended: an accepted updateDpms(On) un-inhibits the output's repaint
\* scheduling and after that requests a full-screen repaint.  With legacy
\* mode-setting it sets the DPMS property first, and when that fails it
\* restores the pending target and does neither.  With atomic mode-setting
\* it issues no commit: it marks a mode-set as requested, which stays
\* requested until a commit has turned the output on.
C18_OnUninhibitsThenRepaints ==
    /\ [][UpdateDpmsOnAccepted
            => IF drm.atomic
               THEN /\ drm'.trace = <<"uninhibit", "addRepaintFull">>
                    /\ drm'.m_dpmsModePending = "On"
                    /\ drm'.m_modesetRequested
                    /\ drm'.m_dpmsMode = drm.m_dpmsMode
               ELSE \/ /\ drm'.trace = <<"setProperty.ok", "uninhibit",
                                         "addRepaintFull">>
                       /\ drm'.m_dpmsModePending = "On"
                       /\ drm'.m_dpmsMode = "On"
                    \/ /\ drm'.trace = <<"setProperty.fail">>
                       /\ drm'.m_dpmsModePending = drm.m_dpmsMode
                       /\ drm'.m_dpmsMode = drm.m_dpmsMode]_vars
    /\ []((drm.atomic /\ drm.m_dpmsModePending = "On" /\ drm.m_dpmsMode # "On")
            => drm.m_modesetRequested)

\* An atomic output that was off has accepted updateDpms(On): scheduling is
\* un-inhibited and a full repaint requested, and no commit was issued.
C18_Witness ==
    /\ drm.op = "updateDpms" /\ drm.arg = "On"
    /\ drm.atomic
    /\ drm.m_dpmsMode = "Off" /\ drm.m_dpmsModePending = "On"
    /\ drm.trace = <<"uninhibit", "addRepaintFull">>

\* updateDpms(target) with nothing to do: the target is the pending target,
\* the output has no DPMS property, or the output is disabled.
UpdateDpmsRefused ==
    /\ drm'.op = "updateDpms"
    /\ \/ drm'.arg = drm.m_dpmsModePending
       \/ ~drm.hasDpms
       \/ ~drm.enabled

\* C19: updateDpms(target) is a no-op when the target is the pending target,
\* when the output has no DPMS property or when the output is disabled: no
\* commit is issued, and the pending target, the deferred-off flag, the
\* mode-set-pending flag and the render loop's inhibition stay as they are.
C19_RefusedDpmsIsNoOp ==
    [][UpdateDpmsRefused
        => /\ drm'.trace = <<>>
           /\ drm'.m_dpmsModePending = drm.m_dpmsModePending
           /\ drm'.m_dpmsMode = drm.m_dpmsMode
           /\ drm'.m_atomicOffPending = drm.m_atomicOffPending
           /\ drm'.m_modesetRequested = drm.m_modesetRequested
           /\ drm'.hwFlips = drm.hwFlips]_vars

\* updateDpms with a new target was called on an enabled output without a
\* DPMS property, and nothing was done.
C19_Witness ==
    /\ drm.op = "updateDpms"
    /\ ~drm.hasDpms /\ drm.enabled
    /\ drm.arg # drm.m_dpmsModePending
    /\ drm.trace = <<>>

\* C20: session deactivation inhibits the output's repaint scheduling,
\* reactivation un-inhibits it and requests a full repaint, and a present()
\* between the two issues no commit and no page flip and marks no flip as
\* pending.
C20_InactiveSessionPresentsNothing ==
    [][/\ (drm'.op = "activeChanged" /\ ~drm'.sessionActive)
            => drm'.trace = <<"inhibit">>
       /\ (drm'.op = "activeChanged" /\ drm'.sessionActive)
            => drm'.trace = <<"uninhibit", "addRepaintFull">>
       /\ (drm'.op = "present" /\ ~drm.sessionActive)
            => /\ ~drm'.sessionActive
               /\ ~drm'.ret
               /\ KernelRequests \cap Range(drm'.trace) = {}
               /\ drm'.hwFlips = drm.hwFlips
               /\ drm'.m_pageFlipPending = drm.m_pageFlipPending]_vars

\* A frame was handed to present() on an output that is on and has no flip
\* pending while the session is inactive, and it was refused.
C20_Witness ==
    /\ drm.op = "present"
    /\ ~drm.sessionActive
    /\ drm.m_dpmsModePending = "On"
    /\ ~drm.m_pageFlipPending
    /\ ~drm.ret
    /\ drm.trace = <<>>

(* ------------------ desktop thumbnails (scene.cpp) --------------------- *)

MaxThumbWindows == 2
\* the nesting of paintWindow calls the stack has room for
MaxPaintDepth == 4

ThumbWindows == 1..MaxThumbWindows
Desktops == {1, 2}
NoWindow == 0

\* A DesktopThumbnailItem of a window: the desktop it shows, isVisible().
DesktopThumbnailItems == [desktop : Desktops, visible : BOOLEAN]

\* The state of one paint pass: the static s_recursionCheck, the windows
\* whose paintWindow call has not returned, and what was observed.
PaintPass ==
    [ s_recursionCheck |-> NoWindow, active |-> <<>>,
      reentered |-> FALSE, overflow |-> FALSE ]

RECURSIVE paintWindowThumbs(_, _, _, _)
RECURSIVE paintDesktopThumbnails(_, _, _, _, _)
RECURSIVE paintDesktop(_, _, _, _, _)

\* void Scene::paintWindow(Window *w, ...), for a region on the screen.  The
\* call re-enters the painting of w when w's paintWindow has not returned
\* yet; with no room left on the stack the process ends.
paintWindowThumbs(sc, p, w, depth) ==
    IF p.overflow THEN p
    ELSE IF p.s_recursionCheck = w THEN p
    ELSE IF depth = 0 THEN [p EXCEPT !.overflow = TRUE]
    ELSE LET a == [p EXCEPT !.reentered = @ \/ Contains(p.active, w),
                            !.active = Append(@, w)]
             b == paintDesktopThumbnails(sc, a, w, 1, depth - 1)
         IN [b EXCEPT !.active = SubSeq(@, 1, Len(@) - 1)]

\* void Scene::paintDesktopThumbnails(Scene::Window *w), from item i on
paintDesktopThumbnails(sc, p, w, i, depth) ==
    IF p.overflow \/ i > Len(sc.desktopThumbnails[w]) THEN p
    ELSE LET item == sc.desktopThumbnails[w][i]
         IN IF ~item.visible
            THEN paintDesktopThumbnails(sc, p, w, i + 1, depth)
            ELSE LET a == [p EXCEPT !.s_recursionCheck = w]
                     b == paintDesktop(sc, a, item.desktop, 1, depth)
                     c == IF b.overflow THEN b
                          ELSE [b EXCEPT !.s_recursionCheck = NoWindow]
                 IN paintDesktopThumbnails(sc, c, w, i + 1, depth)

\* Scene::paintDesktop hands the desktop to the effects, which paint the
\* screen transformed: paintGenericScreen paints, bottom to top and from
\* window k on, every window that resetPaintingEnabled leaves enabled, the
\* windows on the rendered desktop.
paintDesktop(sc, p, desktop, k, depth) ==
    IF p.overflow \/ k > Len(sc.stacking_order) THEN p
    ELSE LET w == sc.stacking_order[k]
             a == IF sc.onDesktop[w] = desktop
                  THEN paintWindowThumbs(sc, p, w, depth)
                  ELSE p
         IN paintDesktop(sc, a, desktop, k + 1, depth)

ThumbSceneInit ==
    [ stacking_order |-> [k \in ThumbWindows |-> k],
      onDesktop |-> [w \in ThumbWindows |-> 1],
      desktopThumbnails |-> [w \in ThumbWindows |-> <<>>],
      op |-> "init", arg |-> NoWindow,
      reentered |-> FALSE, overflow |-> FALSE ]

\* A window gets a desktop thumbnail item, changes it, or loses it.
SetDesktopThumbnails ==
    /\ \E w \in ThumbWindows,
          list \in {<<>>} \cup {<<item>> : item \in DesktopThumbnailItems} :
         scene' = [scene EXCEPT !.desktopThumbnails[w] = list,
                                !.op = "setDesktopThumbnails", !.arg = w,
                                !.reentered = FALSE, !.overflow = FALSE]
    /\ UNCHANGED <<drm, items, itemEnv, gl>>

\* A window is moved to a desktop.
SetDesktop ==
    /\ \E w \in ThumbWindows, d \in Desktops :
         scene' = [scene EXCEPT !.onDesktop[w] = d,
                                !.op = "setDesktop", !.arg = w,
                                !.reentered = FALSE, !.overflow = FALSE]
    /\ UNCHANGED <<drm, items, itemEnv, gl>>

\* The screen is painted and reaches window w with nothing being painted.
PaintWindow ==
    /\ \E w \in ThumbWindows :
         LET p == paintWindowThumbs(scene, PaintPass, w, MaxPaintDepth)
         IN scene' = [scene EXCEPT !.op = "paintWindow", !.arg = w,
                                   !.reentered = p.reentered,
                                   !.overflow = p.overflow]
    /\ UNCHANGED <<drm, items, itemEnv, gl>>

InitThumbnails ==
    /\ scene = ThumbSceneInit
    /\ drm = DrmOutputInit(TRUE, TRUE) /\ NoItems /\ NoBackend

NextThumbnails ==
    \/ SetDesktopThumbnails
    \/ SetDesktop
    \/ PaintWindow

SpecThumbnails == InitThumbnails /\ [][NextThumbnails]_vars

\* C21: painting a window with desktop thumbnails never re-enters the
\* painting of that window, directly or through the thumbnails of the
\* windows painted inside it, and the recursive paint ends.
C21_NoReentrantPaint ==
    scene.op = "paintWindow" => (~scene.reentered /\ ~scene.overflow)

(* ------------------- repaints scheduled by the items ------------------- *)

\* What the item shows and where: position, size, parent, and its place
\* among the children of the parent.
VisualExtent(it, i) ==
    <<it[i].m_x, it[i].m_y, width(it, i), height(it, i), it[i].m_parentItem,
      IF it[i].m_parentItem = NoItem THEN 0
      ELSE indexOf(it[it[i].m_parentItem].m_childItems, i)>>

\* boundingRect() of the item in global coordinates
GlobalBoundingRect(it, i) == mapToGlobal(it, i, it[i].m_boundingRect)

\* Rectangle a covers every point of rectangle b.
Covers(a, b) ==
    \/ Empty(b)
    \/ /\ a.x1 <= b.x1 /\ b.x2 <= a.x2
       /\ a.y1 <= b.y1 /\ b.y2 <= a.y2

\* Entry j of the scheduled repaints covers r; entry 0 stands for no
\* repaint, which covers a rectangle without points.
CoveredBy(scheduled, j, r) ==
    IF j = 0 THEN Empty(r) ELSE Covers(scheduled[j], r)

\* C22: a call that changes the visual extent of an item schedules a
\* repaint that covers the old bounding rect of the item and, after it, a
\* repaint that covers its new bounding rect, both in global coordinates.
C22_RepaintsOldAndNewExtent ==
    [][\A i \in ItemIds :
         VisualExtent(items', i) # VisualExtent(items, i)
         => LET scheduled == items'[WindowSlot].repaints
            IN \E j, k \in 0..Len(scheduled) :
                  /\ (j > 0 /\ k > 0) => j < k
                  /\ CoveredBy(scheduled, j, GlobalBoundingRect(items, i))
                  /\ CoveredBy(scheduled, k, GlobalBoundingRect(items', i))]_vars

\* buildQuads has returned.
BuiltQuads == Len(itemEnv'.op) = 3 /\ itemEnv'.op[1] = "buildQuads"

\* C23: after a geometry or stacking change in the item tree buildQuads
\* never returns the list cached before the change, and a valid cache is
\* rebuilt only after it was invalidated.
C23_QuadsNeverStale ==
    [][BuiltQuads
        => /\ items'[WindowSlot].cached_quad_list.valid
           /\ items'[WindowSlot].cached_quad_list.quads
                  = makeContentsQuads(items, <<1>>, 0)
           /\ items[WindowSlot].cached_quad_list.valid
                  => items'[WindowSlot].cached_quad_list
                         = items[WindowSlot].cached_quad_list]_vars

(***************************************************************************)
(*                    ITEMS: stackBefore AND stackAfter                    *)
(***************************************************************************)

\* The last call was name(sibling) on an item and returned.
Restacked(name) ==
    /\ Len(itemEnv'.op) = 3 /\ itemEnv'.op[1] = name /\ ~itemEnv'.ub

\* list without the element e.
Without(list, e) == SelectSeq(list, LAMBDA x : x # e)

\* The cases in which the claim lets stackBefore (offset -1) and stackAfter
\* (offset 1) do nothing.
NothingToRestack(it, i, sibling, offset) ==
    \/ sibling = NoItem
    \/ sibling = i
    \/ it[sibling].m_parentItem = NoItem
    \/ it[sibling].m_parentItem # it[i].m_parentItem
    \/ LET list == it[it[i].m_parentItem].m_childItems
       IN indexOf(list, i) = indexOf(list, sibling) + offset

\* The step did what the claim says of a call on item i with sibling:
\* nothing in the cases above, otherwise only the children of the parent
\* change, item i ends up at offset from the sibling and the other
\* children keep their order.
RestackedAsClaimed(i, sibling, offset) ==
    IF NothingToRestack(items, i, sibling, offset)
    THEN items' = NewCall(items)
    ELSE LET p == items[i].m_parentItem
             old == items[p].m_childItems
             new == items'[p].m_childItems
         IN /\ indexOf(new, i) = indexOf(new, sibling) + offset
            /\ Without(new, i) = Without(old, i)
            /\ Len(new) = Len(old)
            /\ \A j \in ItemsOf(items) :
                   /\ items'[j].m_parentItem = items[j].m_parentItem
                   /\ j # p => items'[j].m_childItems = items[j].m_childItems

\* C24: stackBefore and stackAfter change nothing when the sibling is null,
\* is the item itself, does not share the parent of the item, or when the
\* item is already immediately before (after) the sibling; otherwise the
\* item ends up immediately before (after) the sibling and the relative
\* order of the other children is unchanged.
C24_RestackMovesOnlyTheItem ==
    [][/\ Restacked("stackBefore")
          => RestackedAsClaimed(itemEnv'.op[2], itemEnv'.op[3][1], -1)
       /\ Restacked("stackAfter")
          => RestackedAsClaimed(itemEnv'.op[2], itemEnv'.op[3][1], 1)]_vars

\* stackBefore moved an item from behind its sibling to right before it,
\* past a third child.
C24_Witness ==
    /\ Len(itemEnv.op) = 3 /\ itemEnv.op[1] = "stackBefore"
    /\ Len(items[WindowSlot].repaints) = 2
    /\ LET list == items[1].m_childItems
       IN /\ Len(list) >= 3
          /\ list[1] = itemEnv.op[2]
          /\ list[2] = itemEnv.op[3][1]

(***************************************************************************)
(*                 SCENE: REPAINT REGIONS OF THE OUTPUTS                   *)
(***************************************************************************)

\* Number of outputs of the platform.  Output o has the geometry {o - 1};
\* pixel MaxOutputs lies on no output.
MaxOutputs == 2

OutputIds == 1..MaxOutputs

\* output->geometry()
outputGeometry(o) == {o - 1}

\* The regions handed to addRepaint and addLayerRepaint: on the first
\* output, on no output, and across everything.
DirtyRegions == {{0}, {MaxOutputs}, 0..MaxOutputs}

\* The sequences kwinApp()->platform()->enabledOutputs() can return.
EnabledOutputs ==
    {o \in UNION {[1..n -> OutputIds] : n \in 0..MaxOutputs} :
        \A j, k \in DOMAIN o : j # k => o[j] # o[k]}

\* m_repaints[index] += region
plus(r, region) == IF r = Infinite THEN Infinite ELSE Finite(r.pixels \cup region)

\* m_repaints after reallocRepaints(): resize(count), fill(infiniteRegion())
reallocRepaints(perScreen, outputs) ==
    [k \in 1..(IF perScreen THEN Len(outputs) ELSE 1) |-> Infinite]

\* The body of addRepaint and addLayerRepaint without the comparison of
\* the counts: the loop runs over m_repaints and indexes outputs.
addRegion_Unchecked(perScreen, outputs, m_repaints, region) ==
    IF perScreen
    THEN LET n == IF Len(m_repaints) <= Len(outputs)
                  THEN Len(m_repaints) ELSE Len(outputs)
             dirtyRegion(k) == region \cap outputGeometry(outputs[k])
         IN [m_repaints |-> [k \in DOMAIN m_repaints |->
                                IF k <= n /\ dirtyRegion(k) # {}
                                THEN plus(m_repaints[k], dirtyRegion(k))
                                ELSE m_repaints[k]],
             scheduled |-> \E k \in 1..n : dirtyRegion(k) # {},
             oob |-> Len(m_repaints) > Len(outputs)]
    ELSE [m_repaints |-> [m_repaints EXCEPT ![1] = plus(@, region)],
          scheduled |-> TRUE,
          oob |-> m_repaints = <<>>]

\* The body that void Scene::addRepaint(const QRegion &region) and
\* void Scene::Window::addLayerRepaint(const QRegion &region) share: the
\* new m_repaints, whether a render loop was scheduled, and whether a
\* vector was indexed out of bounds.
addRegion(perScreen, outputs, m_repaints, region) ==
    IF perScreen /\ Len(m_repaints) # Len(outputs)
    THEN [m_repaints |-> m_repaints, scheduled |-> FALSE, oob |-> FALSE]
    ELSE addRegion_Unchecked(perScreen, outputs, m_repaints, region)

\* The scene, rc being what the call name made of its m_repaints.
SceneCalled(sc, rc, name) ==
    [sc EXCEPT !.m_repaints = rc.m_repaints, !.scheduled = rc.scheduled,
               !.oob = rc.oob, !.op = name]

\* The window of the scene, rc being what the call name made of its
\* m_repaints.
WindowCalled(sc, rc, name) ==
    [sc EXCEPT !.window = rc.m_repaints, !.scheduled = rc.scheduled,
               !.oob = rc.oob, !.op = name]

\* Scene::addRepaint without the comparison of the counts.
addRepaint_Unchecked(sc, region) ==
    SceneCalled(sc, addRegion_Unchecked(sc.perScreen, sc.outputs, sc.m_repaints, region),
                "addRepaint")

\* void Scene::addRepaint(const QRegion &region)
addRepaint(sc, region) ==
    SceneCalled(sc, addRegion(sc.perScreen, sc.outputs, sc.m_repaints, region),
                "addRepaint")

\* void Scene::Window::addLayerRepaint(const QRegion &region), with the
\* per-screen branch
addLayerRepaintOnOutputs(sc, region) ==
    WindowCalled(sc, addRegion(sc.perScreen, sc.outputs, sc.window, region),
                 "addLayerRepaint")

\* The scene and one window after their constructors: perScreen is
\* isPerScreenRenderingEnabled(), outputs the enabled outputs, m_repaints
\* the vector of the scene and window the vector of the window.  slots
\* lists the reallocRepaints slots that the last outputEnabled or
\* outputDisabled signal has yet to call, in the order of the connections.
\* scheduled, oob and op describe the last call.
RepaintSceneInit(perScreen, outputs) ==
    [perScreen |-> perScreen, outputs |-> outputs,
     m_repaints |-> reallocRepaints(perScreen, outputs),
     window |-> reallocRepaints(perScreen, outputs),
     slots |-> <<>>, scheduled |-> FALSE, oob |-> FALSE, op |-> "init"]

\* The slots connected to outputEnabled and outputDisabled.
ConnectedSlots(sc) == IF sc.perScreen THEN <<"Scene", "Window">> ELSE <<>>

(* ------------------------------- actions ------------------------------- *)

\* The platform enables an output and emits outputEnabled.
OutputEnabled ==
    /\ scene.slots = <<>> /\ ~scene.oob
    /\ \E o \in OutputIds :
         /\ \A k \in DOMAIN scene.outputs : scene.outputs[k] # o
         /\ scene' = [scene EXCEPT !.outputs = Append(@, o),
                                   !.slots = ConnectedSlots(scene),
                                   !.scheduled = FALSE, !.op = "outputEnabled"]
    /\ UNCHANGED <<drm, items, itemEnv, gl>>

\* The platform disables an output and emits outputDisabled.
OutputDisabled ==
    /\ scene.slots = <<>> /\ ~scene.oob
    /\ \E k \in DOMAIN scene.outputs :
         scene' = [scene EXCEPT !.outputs = removeAt(@, k),
                                !.slots = ConnectedSlots(scene),
                                !.scheduled = FALSE, !.op = "outputDisabled"]
    /\ UNCHANGED <<drm, items, itemEnv, gl>>

\* The signal calls the next slot: Scene::reallocRepaints or
\* Scene::Window::reallocRepaints.
ReallocRepaints ==
    /\ scene.slots # <<>> /\ ~scene.oob
    /\ LET fresh == reallocRepaints(scene.perScreen, scene.outputs)
       IN scene' = [scene EXCEPT
                       !.m_repaints = IF Head(scene.slots) = "Scene" THEN fresh ELSE @,
                       !.window = IF Head(scene.slots) = "Window" THEN fresh ELSE @,
                       !.slots = Tail(@),
                       !.scheduled = FALSE, !.op = "reallocRepaints"]
    /\ UNCHANGED <<drm, items, itemEnv, gl>>

\* void Scene::resetRepaints(int screenId) and
\* void Scene::Window::resetRepaints(int screen), called for an output that
\* was painted.
ResetRepaints ==
    /\ ~scene.oob
    /\ \E index \in DOMAIN scene.m_repaints \cap DOMAIN scene.window :
         scene' = [scene EXCEPT !.m_repaints[index] = Finite({}),
                                !.window[index] = Finite({}),
                                !.scheduled = FALSE, !.op = "resetRepaints"]
    /\ UNCHANGED <<drm, items, itemEnv, gl>>

AddRepaint ==
    /\ ~scene.oob
    /\ \E region \in DirtyRegions : scene' = addRepaint(scene, region)
    /\ UNCHANGED <<drm, items, itemEnv, gl>>

AddLayerRepaintOnOutputs ==
    /\ ~scene.oob
    /\ \E region \in DirtyRegions : scene' = addLayerRepaintOnOutputs(scene, region)
    /\ UNCHANGED <<drm, items, itemEnv, gl>>

InitRepaints ==
    /\ drm = DrmOutputInit(TRUE, TRUE) /\ NoItems /\ NoBackend
    /\ \E perScreen \in BOOLEAN, outputs \in EnabledOutputs :
         scene = RepaintSceneInit(perScreen, outputs)

NextRepaints ==
    \/ OutputEnabled \/ OutputDisabled \/ ReallocRepaints \/ ResetRepaints
    \/ AddRepaint \/ AddLayerRepaintOnOutputs

SpecRepaints == InitRepaints /\ [][NextRepaints]_vars

(* ------------------------------ properties ----------------------------- *)

\* The step is a call of addRepaint, or of addLayerRepaint, made while the
\* vector of per-output regions it works on has another length than the
\* enabled outputs.
AddedWhileMismatched ==
    /\ scene.perScreen
    /\ \/ scene'.op = "addRepaint" /\ Len(scene.m_repaints) # Len(scene.outputs)
       \/ scene'.op = "addLayerRepaint" /\ Len(scene.window) # Len(scene.outputs)

\* C25: addRepaint and addLayerRepaint called while the number of
\* per-output repaint regions differs from the number of enabled outputs
\* drop the region: no pending region changes, no render loop is
\* scheduled, and no vector is indexed out of bounds.
C25_MismatchDropsRegion ==
    [][AddedWhileMismatched
          => /\ scene'.m_repaints = scene.m_repaints
             /\ scene'.window = scene.window
             /\ ~scene'.scheduled
             /\ ~scene'.oob]_vars

\* addRepaint was called between the disabling of an output and the
\* reallocation: the scene has more regions than there are outputs, and
\* a region that is not infinite.
C25_Witness ==
    /\ scene.op = "addRepaint"
    /\ scene.perScreen
    /\ Len(scene.m_repaints) > Len(scene.outputs)
    /\ \E k \in DOMAIN scene.m_repaints : scene.m_repaints[k] # Infinite

(***************************************************************************)
(*                SCENE: THE EXPECTED PRESENTATION TIME                    *)
(***************************************************************************)

\* The step painted a frame for which the render loop reported a time
\* earlier than the recorded one.
PaintedEarlierFrame ==
    /\ scene'.op = "paintScreen"
    /\ scene'.frame.presentTime < scene.m_expectedPresentTimestamp

\* The step painted what paintScreen paints when the reported time is the
\* recorded one.
PaintedAsOnTime ==
    \E damage \in Damages, repaint \in {{}, displayRegion} :
        LET onTime == paintScreen(scene, scene.m_expectedPresentTimestamp,
                                  damage, repaint, {}, NoHooks(scene.windows))
        IN /\ scene'.windows = onTime.windows
           /\ scene'.frame =
                  [onTime.frame EXCEPT !.presentTime = scene'.frame.presentTime]

\* C26: the expected presentation timestamp that the scene records never
\* decreases; a frame whose reported presentation time is earlier than the
\* recorded one leaves the recorded value unchanged, and the frame is
\* still painted.
C26_PresentTimeNeverRewinds ==
    [][/\ scene'.m_expectedPresentTimestamp >= scene.m_expectedPresentTimestamp
       /\ PaintedEarlierFrame
             => /\ scene'.m_expectedPresentTimestamp
                       = scene.m_expectedPresentTimestamp
                /\ PaintedAsOnTime]_vars

\* A frame was painted with a reported time earlier than the recorded one,
\* and it painted the window.
C26_Witness ==
    /\ scene.op = "paintScreen"
    /\ scene.frame.presentTime < scene.m_expectedPresentTimestamp
    /\ scene.frame.prePaintScreen = scene.m_expectedPresentTimestamp
    /\ scene.frame.painted # <<>>

(***************************************************************************)
(*                     ITEMS: DESTRUCTION OF AN ITEM                       *)
(***************************************************************************)

MaxGpuOutputs == 2

GpuOutputs == 1..MaxGpuOutputs

\* EGL_NO_SURFACE; the surface created for output o is o.
NoSurface == 0

\* The sequences of outputs the platform can have enabled.
GpuOutputLists ==
    {o \in UNION {[1..n -> GpuOutputs] : n \in 0..MaxGpuOutputs} :
        \A j, k \in DOMAIN o : j # k => o[j] # o[k]}

\* EGLSurface EglGbmBackend::createEglSurface(...) for the output
createEglSurface(b, drmOutput) ==
    IF drmOutput \in b.surfaceFails THEN NoSurface ELSE drmOutput

\* bool EglGbmBackend::resetOutput(Output &output, DrmOutput *drmOutput) on
\* a new Output: the result, the Output and surface() of the backend.
resetOutput(b, drmOutput) ==
    LET eglSurface == createEglSurface(b, drmOutput)
    IN IF eglSurface = NoSurface
       THEN [ok |-> FALSE, output |-> <<>>, surface |-> b.surface]
       ELSE [ok |-> TRUE,
             output |-> [output |-> drmOutput, eglSurface |-> eglSurface],
             surface |-> IF b.surface = NoSurface THEN eglSurface ELSE b.surface]

\* void EglGbmBackend::addOutput(DrmOutput *drmOutput) of the primary
\* backend, the output being one of its GPU
EglGbmBackend_addOutput(b, drmOutput) ==
    LET r == resetOutput(b, drmOutput)
    IN IF r.ok
       THEN [b EXCEPT !.m_outputs = Append(@, r.output), !.surface = r.surface]
       ELSE b

\* void EglGbmBackend::removeOutput(DrmOutput *drmOutput)
EglGbmBackend_removeOutput(b, drmOutput) ==
    [b EXCEPT !.m_outputs = SelectSeq(@, LAMBDA o : o.output # drmOutput)]

RECURSIVE addOutputs(_, _)
\* for (DrmOutput *drmOutput: outputs) addOutput(drmOutput);
addOutputs(b, outputs) ==
    IF outputs = <<>> THEN b
    ELSE addOutputs(EglGbmBackend_addOutput(b, Head(outputs)), Tail(outputs))

\* bool EglGbmBackend::initRenderingContext(), followed by setFailed() of
\* init() when it returns false
initRenderingContext(b) ==
    IF b.context = "createContext fails" THEN [b EXCEPT !.state = "failed"]
    ELSE LET a == addOutputs(b, b.enabledOutputs)
         IN IF a.m_outputs = <<>> /\ b.enabledOutputs # <<>>
            THEN [a EXCEPT !.state = "failed"]
            ELSE IF a.m_outputs # <<>>
            THEN [a EXCEPT !.surface = a.m_outputs[1].eglSurface,
                           !.state = IF b.context = "makeContextCurrent fails"
                                     THEN "failed" ELSE "ready"]
            ELSE [a EXCEPT !.state = "ready"]

\* The backend after its constructor.  enabledOutputs are the outputs the
\* platform has enabled (the outputs of the GPU), surfaceFails the outputs
\* for which eglCreatePlatformWindowSurfaceEXT fails, context what becomes
\* of the context.  frame is the last frame begun: its screen, the output
\* of the platform with that index, and the surface made current.
GbmBackendInit(enabledOutputs, surfaceFails, context) ==
    [enabledOutputs |-> enabledOutputs, surfaceFails |-> surfaceFails,
     context |-> context, state |-> "constructed",
     m_outputs |-> <<>>, surface |-> NoSurface,
     frame |-> <<>>, ub |-> FALSE, op |-> "init"]

(* ------------------------------- actions ------------------------------- *)

InitRenderingContext ==
    /\ gl.state = "constructed"
    /\ gl' = [initRenderingContext(gl) EXCEPT !.op = "initRenderingContext"]
    /\ UNCHANGED <<drm, items, itemEnv, scene>>

\* An output is plugged in: the platform enables it and calls addOutput.
OutputAdded ==
    /\ gl.state = "ready" /\ ~gl.ub
    /\ \E o \in GpuOutputs :
         /\ \A k \in DOMAIN gl.enabledOutputs : gl.enabledOutputs[k] # o
         /\ gl' = [EglGbmBackend_addOutput(gl, o) EXCEPT
                       !.enabledOutputs = Append(@, o),
                       !.frame = <<>>, !.op = "addOutput"]
    /\ UNCHANGED <<drm, items, itemEnv, scene>>

\* An output is unplugged: the platform drops it and calls removeOutput.
OutputRemoved ==
    /\ gl.state = "ready" /\ ~gl.ub
    /\ \E k \in DOMAIN gl.enabledOutputs :
         gl' = [EglGbmBackend_removeOutput(gl, gl.enabledOutputs[k]) EXCEPT
                    !.enabledOutputs = removeAt(@, k),
                    !.frame = <<>>, !.op = "removeOutput"]
    /\ UNCHANGED <<drm, items, itemEnv, scene>>

\* QRegion EglGbmBackend::beginFrame(int screenId): the compositor paints
\* the enabled output with the index screenId (counted from 1 here).
\* m_outputs[screenId] past the end of the vector is undefined: any
\* surface, or none, can end up current.
BeginFrameOnScreen ==
    /\ gl.state = "ready" /\ ~gl.ub
    /\ \E screenId \in DOMAIN gl.enabledOutputs :
         IF screenId \in DOMAIN gl.m_outputs
         THEN gl' = [gl EXCEPT !.frame = [screenId |-> screenId,
                                          output |-> gl.enabledOutputs[screenId],
                                          eglSurface |-> gl.m_outputs[screenId].eglSurface],
                               !.op = "beginFrame"]
         ELSE \E garbage \in GpuOutputs \cup {NoSurface} :
                gl' = [gl EXCEPT !.frame = [screenId |-> screenId,
                                            output |-> gl.enabledOutputs[screenId],
                                            eglSurface |-> garbage],
                                 !.ub = TRUE, !.op = "beginFrame"]
    /\ UNCHANGED <<drm, items, itemEnv, scene>>

InitOutputs ==
    /\ drm = DrmOutputInit(TRUE, TRUE) /\ NoItems /\ NoScene
    /\ \E enabledOutputs \in GpuOutputLists, surfaceFails \in SUBSET GpuOutputs,
          context \in {"ok", "createContext fails", "makeContextCurrent fails"} :
         gl = GbmBackendInit(enabledOutputs, surfaceFails, context)

NextOutputs ==
    InitRenderingContext \/ OutputAdded \/ OutputRemoved \/ BeginFrameOnScreen

SpecOutputs == InitOutputs /\ [][NextOutputs]_vars

(* ------------------------------ properties ----------------------------- *)

\* The outputs of list for which a surface can be created, in their order.
SetUp(list) == SelectSeq(list, LAMBDA o : o \notin gl.surfaceFails)

\* C28: if the creation of the surface fails for some of the outputs, only
\* those outputs are left out: every other output is set up, the frames of
\* every other output are rendered to its own surface, and the
\* initialization fails only when no output could be set up.
C28_OtherOutputsRendered ==
    /\ (gl.op = "initRenderingContext" /\ gl.context = "ok")
           => /\ [k \in DOMAIN gl.m_outputs |-> gl.m_outputs[k].output]
                     = SetUp(gl.enabledOutputs)
              /\ gl.state = "failed"
                     <=> (SetUp(gl.enabledOutputs) = <<>> /\ gl.enabledOutputs # <<>>)
    /\ (gl.op = "beginFrame" /\ gl.frame.output \notin gl.surfaceFails)
           => /\ ~gl.ub
              /\ gl.frame.eglSurface = gl.frame.output

(***************************************************************************)
(*                      DRM OUTPUT: THE CURSOR PLANE                       *)
(***************************************************************************)

\* Number of cursor sprites that fit the cursor buffers.  Image 0 is the
\* null image, the images 1..MaxSprites fit, image MaxSprites + 1 is too
\* big (isCursorSpriteCompatible fails).
MaxSprites == 2

CursorImages == 0..(MaxSprites + 1)

\* c->handle() of m_cursor[index]; handle 0 is no buffer.
handle(index) == index + 1

\* The cursor state of an output after initCursor().  m_cursor[index] is
\* the image the buffer holds (0: nothing drawn yet), plane the handle the
\* cursor plane shows, drawn the handle of the buffer drawn into last.
\* The remaining fields describe the last call: whether it drew, whether
\* it drew into the buffer the plane was showing, whether it set the
\* plane, and its name.
CursorInit ==
    [m_deleted |-> FALSE, m_cursorIndex |-> 0, m_hasNewCursor |-> FALSE,
     m_cursor |-> [index \in {0, 1} |-> 0],
     plane |-> 0, drawn |-> 0,
     drew |-> FALSE, drewIntoShown |-> FALSE, shown |-> FALSE, op |-> "init"]

\* A call starts.
CursorCall(w, name) ==
    [w EXCEPT !.drew = FALSE, !.drewIntoShown = FALSE, !.shown = FALSE,
              !.op = name]

\* bool DrmOutput::hideCursor(); ok is the outcome of drmModeSetCursor.
hideCursor(w, ok) == IF ok THEN [w EXCEPT !.plane = 0] ELSE w

\* bool DrmOutput::showCursor(); ok is the outcome of drmModeSetCursor.
showCursor(w, ok) ==
    IF w.m_deleted \/ ~ok THEN w
    ELSE [w EXCEPT !.plane = handle(w.m_cursorIndex),
                   !.shown = TRUE,
                   !.m_cursorIndex = IF w.m_hasNewCursor THEN (@ + 1) % 2 ELSE @,
                   !.m_hasNewCursor = FALSE]

\* bool DrmOutput::updateCursor(); cursorImage is the image of the current
\* cursor.
updateCursor(w, cursorImage) ==
    IF w.m_deleted \/ cursorImage = 0 \/ cursorImage > MaxSprites THEN w
    ELSE [w EXCEPT !.m_hasNewCursor = TRUE,
                   !.m_cursor[w.m_cursorIndex] = cursorImage,
                   !.drawn = handle(w.m_cursorIndex),
                   !.drew = TRUE,
                   !.drewIntoShown = @ \/ w.plane = handle(w.m_cursorIndex)]

(* ------------------------------- actions ------------------------------- *)

UpdateCursor ==
    /\ \E cursorImage \in CursorImages :
         drm' = updateCursor(CursorCall(drm, "updateCursor"), cursorImage)
    /\ UNCHANGED <<items, itemEnv, scene, gl>>

ShowCursor ==
    /\ \E ok \in BOOLEAN : drm' = showCursor(CursorCall(drm, "showCursor"), ok)
    /\ UNCHANGED <<items, itemEnv, scene, gl>>

HideCursor ==
    /\ \E ok \in BOOLEAN : drm' = hideCursor(CursorCall(drm, "hideCursor"), ok)
    /\ UNCHANGED <<items, itemEnv, scene, gl>>

\* The end of updateTransform(), and of presentAtomically() going back to
\* the last working state: updateCursor(); showCursor();
CursorRotated ==
    /\ \E cursorImage \in CursorImages, ok \in BOOLEAN :
         drm' = showCursor(updateCursor(CursorCall(drm, "updateTransform"),
                                        cursorImage), ok)
    /\ UNCHANGED <<items, itemEnv, scene, gl>>

\* The cursor part of teardown(): m_deleted = true; hideCursor();
CursorTeardown ==
    /\ ~drm.m_deleted
    /\ \E ok \in BOOLEAN :
         drm' = hideCursor([CursorCall(drm, "teardown") EXCEPT !.m_deleted = TRUE], ok)
    /\ UNCHANGED <<items, itemEnv, scene, gl>>

InitCursor ==
    /\ drm = CursorInit
    /\ NoItems /\ NoScene /\ NoBackend

NextCursor ==
    UpdateCursor \/ ShowCursor \/ HideCursor \/ CursorRotated \/ CursorTeardown

SpecCursor == InitCursor /\ [][NextCursor]_vars

(* ------------------------------ properties ----------------------------- *)

\* C29: over any sequence of updateCursor and showCursor calls, failed
\* ones included, showCursor shows the buffer that holds the cursor image
\* drawn most recently, and updateCursor never draws into the buffer that
\* the cursor plane is showing.
C29_CursorBuffersSwapped ==
    /\ (drm.shown /\ drm.drawn # 0) => drm.plane = drm.drawn
    /\ ~drm.drewIntoShown

(***************************************************************************)
(*               DRM OUTPUT: THE DEFERRED DPMS-OFF COMMIT                  *)
(***************************************************************************)

\* The step handled a page flip event while a DPMS-off request was queued.
FlippedWithOffQueued ==
    /\ drm'.op = "pageFlipped"
    /\ drm.m_atomicOffPending

C31_QueuedOffHasPendingFlip ==
    drm.m_atomicOffPending => drm.m_pageFlipPending

(* ------------------- inhibiting the render loop ------------------------ *)

\* DPMS and enablement changes, presents and flip completions of an output
\* whose render loop starts running; each inhibit() and uninhibit() call of
\* the handlers is followed.
InitInhibit ==
    /\ \E atomic \in BOOLEAN :
          drm = [DrmOutputInit(atomic, FALSE) EXCEPT !.renderLoop = "running"]
    /\ NoItems /\ NoScene /\ NoBackend

NextInhibit ==
    \/ Present
    \/ PageFlipped
    \/ UpdateDpms
    \/ SetEnabled

SpecInhibit == InitInhibit /\ [][NextInhibit]_vars

\* C32: the output's inhibit() and uninhibit() calls on its render loop
\* alternate, starting with inhibit(): the loop is never inhibited a second
\* time without an uninhibit() in between, and uninhibit() is never called
\* on a loop that is not inhibited.
C32_InhibitCallsAlternate ==
    drm.renderLoop \in {"running", "inhibited"}

(* ------------------- failed DPMS changes ------------------------------- *)

\* What a handler's trace shows of a failure: the request could not be built,
\* the kernel refused the test or the real commit, or the legacy property
\* set failed.
CommitFailures == {"alloc.fail", "rejected", "setProperty.fail"}

FailedInHandler == Range(drm.trace) \cap CommitFailures # {}

\* C33 as stated: after a failed DPMS change the pending target equals the
\* mode last applied to the hardware, and a later request for the mode that
\* failed is not taken for "unchanged" (the pending target is not the mode
\* that was asked for).
C33_FailedRequestNotSwallowed ==
    (FailedInHandler /\ drm.op = "updateDpms")
        => /\ drm.m_dpmsModePending = drm.m_dpmsMode
           /\ drm.m_dpmsModePending # drm.arg

\* C33, amended: after a handler in which a DPMS change failed (an atomic
\* test or real commit failed, or the legacy property set failed), the
\* pending DPMS target m_dpmsModePending equals m_dpmsMode, the mode last
\* applied to the hardware; a request for the applied mode itself is taken
\* for "unchanged" again.
C33_FailedDpmsRestoresPending ==
    FailedInHandler => drm.m_dpmsModePending = drm.m_dpmsMode

\* a request for a DPMS mode other than the applied one has just failed
C33_Witness ==
    /\ FailedInHandler
    /\ drm.op = "updateDpms"
    /\ drm.arg # drm.m_dpmsMode
    /\ drm.m_dpmsModePending = drm.m_dpmsMode

(* ------------------- the pending mode-set ------------------------------ *)

RealCommits == {"real.on", "real.off", "busy.real.on", "busy.real.off"}

\* The handler handed a real commit to the kernel and the kernel took it.
RealCommitSucceeded(trace) ==
    \E i \in DOMAIN trace :
        /\ trace[i] \in RealCommits
        /\ i = Len(trace) \/ trace[i + 1] # "rejected"

\* updateMode to another mode, or updateTransform
ModeOrTransformChanged ==
    \/ drm'.op = "updateMode" /\ drm'.m_mode # drm.m_mode
    \/ drm'.op = "setTransform"

\* C34: a mode or transform change sets m_modesetRequested, and the flag
\* goes from set to clear only in a handler whose real commit succeeded:
\* not in a handler that only got as far as a test commit, whose commit
\* failed, or that rolled back after a failed test commit.
C34_ModesetPendingUntilRealCommit ==
    [][/\ ModeOrTransformChanged => drm'.m_modesetRequested
       /\ (drm.m_modesetRequested /\ ~drm'.m_modesetRequested)
            => RealCommitSucceeded(drm'.trace)]_vars

\* a present() after a change to another mode has cleared the flag with its
\* real commit
C34_Witness ==
    /\ drm.op = "present"
    /\ drm.m_mode # 1
    /\ drm.pre # <<>> /\ drm.m_lastWorkingState.valid
    /\ drm.m_lastWorkingState.mode = drm.m_mode
    /\ ~drm.m_modesetRequested
    /\ RealCommitSucceeded(drm.trace)

(* ------------------- page-flip completion ------------------------------ *)

\* The slots the output presents from: the primary plane's with atomic
\* mode-setting, the crtc's with legacy mode-setting.
CurrentBuffer(w) == IF w.atomic THEN w.planeCurrent ELSE w.crtcCurrent
NextBuffer(w) == IF w.atomic THEN w.planeNext ELSE w.crtcNext

\* pageFlipped() ran on an output that is not torn down, has a buffer staged
\* in its next slot and has no DPMS-off request queued behind the flip.
FlipCompleted ==
    /\ drm'.op = "pageFlipped"
    /\ ~drm.m_deleted
    /\ drm.m_pageFlipPending
    /\ NextBuffer(drm) # NullBuf
    /\ ~drm.m_atomicOffPending

\* C35: processing a page-flip completion on an output that is not torn down
\* clears m_pageFlipPending, makes the buffer staged in the next slot the
\* current buffer, leaves the next slot empty, and releases the previously
\* current buffer (no slot holds it any more).
C35_FlipPromotesNext ==
    [][FlipCompleted
        => /\ ~drm'.m_pageFlipPending
           /\ CurrentBuffer(drm') = NextBuffer(drm)
           /\ NextBuffer(drm') = NullBuf
           /\ CurrentBuffer(drm) \notin (Referenced(drm') \ {NullBuf, NextBuffer(drm)})]_vars

(* ------------------- what a frame paints (scene.cpp) ------------------- *)

\* The pixels the last frame painted: the background fill, and the regions
\* handed to paintWindow for the windows that were painted.
PaintedPixels ==
    (IF scene.frame.background.infinite THEN Pixels
     ELSE scene.frame.background.pixels)
    \cup UNION {scene.frame.painted[j].region : j \in DOMAIN scene.frame.painted}

\* C36: in the optimized path every pixel of the screen that is in the
\* requested damage region of the frame is painted: it is in the region of
\* the background fill or in the paint region of a window that was painted.
C36_DamagePainted ==
    scene.op = "paintScreen"
        => (scene.frame.region \cap displayRegion) \subseteq PaintedPixels

\* a frame with partial damage in which the damaged pixel is under the clip
\* of an opaque window: the background fill leaves it out and the window
\* paints it
C36_Witness ==
    /\ scene.op = "paintScreen"
    /\ scene.frame.region = {0}
    /\ ~scene.frame.fullRepaint
    /\ 0 \notin scene.frame.background.pixels
    /\ \E j \in DOMAIN scene.frame.painted : 0 \in scene.frame.painted[j].region
    /\ Len(scene.frame.culled) = 2
    /\ 0 \notin scene.frame.culled[1].region

(* ------------------- frames with effects loaded ------------------------ *)

\* The flags effects->prePaintScreen can set in the mask of a frame.
EffectMasks ==
    SUBSET (TransformedFlags \cup {"PAINT_SCREEN_BACKGROUND_FIRST"})

\* The windows of the scene with effects: windows that cover the screen,
\* opaque or translucent, with painting enabled or disabled.
EffectWindows ==
    {SceneWindow(t, displayRegion, shown) :
        t \in {[opacity1 |-> TRUE, hasAlpha |-> FALSE, opaqueAll |-> TRUE],
               [opacity1 |-> FALSE, hasAlpha |-> FALSE, opaqueAll |-> FALSE]},
        shown \in BOOLEAN}

\* The compositor paints a frame with effects loaded: prePaintScreen sets
\* flags in the mask, and the prePaintWindow hook of a window may schedule
\* a repaint of that window.
PaintScreenWithEffects ==
    /\ \E damage \in Damages, repaint \in {{}, displayRegion},
          effectsMask \in EffectMasks,
          hooks \in [DOMAIN scene.windows -> {{}, {1}}] :
         scene' = paintScreen(scene, 0, damage, repaint, effectsMask, hooks) @@
                      [op |-> "paintScreen", presentTimes |-> scene.presentTimes]
    /\ UNCHANGED <<drm, items, itemEnv, gl>>

\* A scene of two windows.
InitEffects ==
    /\ drm = DrmOutputInit(TRUE, TRUE) /\ NoItems /\ NoBackend
    /\ \E windows \in [{1, 2} -> EffectWindows] :
         scene = SceneInit(windows, {0})

NextEffects == AddLayerRepaint \/ PaintScreenWithEffects

SpecEffects == InitEffects /\ [][NextEffects]_vars

\* The windows of the stacking order with painting enabled, bottom to top.
PaintEnabled ==
    SelectSeq([k \in DOMAIN scene.windows |-> k],
              LAMBDA k : scene.windows[k].shown)

AreaPainted ==
    pixelsOf(scene'.frame.background)
    \cup UNION {scene'.frame.phase2data[i].region :
                   i \in DOMAIN scene'.frame.phase2data}

\* What the frame in scene' had to redraw: its damage and the repaints that
\* were pending on the windows it paints.
DirtyBeforeReplay ==
    scene'.frame.region
    \cup UNION {repaints(scene.windows[k]) :
                   k \in {j \in DOMAIN scene.windows : scene.windows[j].shown}}

\* The part of the repaint region that the frame rendered only to bring a
\* reused back buffer up to date.
ReplayedOnly == scene'.frame.dirtyArea \ DirtyBeforeReplay

\* C38: the damaged region a frame of the optimized path reports is within
\* the area the frame painted, and holds nothing of the part of the repaint
\* region that was rendered only to bring a reused back buffer up to date.
C38_DamageExcludesReplay ==
    [][(scene'.op = "paintScreen" /\ ~scene'.frame.generic)
        => /\ scene'.frame.updateRegion = scene'.frame.damaged_region
           /\ scene'.frame.damaged_region \subseteq AreaPainted
           /\ scene'.frame.damaged_region \cap ReplayedOnly = {}]_vars

\* a frame of the optimized path with damage on pixel 0 replayed the rest of
\* the screen, and reports pixel 0 only
C38_Witness ==
    /\ scene.op = "paintScreen"
    /\ ~scene.frame.generic
    /\ scene.frame.region = {0}
    /\ scene.frame.dirtyArea = displayRegion
    /\ scene.frame.damaged_region = {0}
    /\ Len(scene.frame.painted) > 0

(* ------------------- repaints scheduled by pre-paint hooks ------------- *)

\* C39: a repaint that the pre-paint hook of a window schedules in a frame
\* is pending on the window when the frame is over, in the optimized and in
\* the generic path, and stays pending until the next frame is painted:
\* the repaints of the window are reset before its hook runs and not again
\* in the same frame, and only a frame takes pending repaints away.
C39_HookRepaintSurvivesFrame ==
    /\ [](scene.op = "paintScreen"
            => \A k \in DOMAIN scene.windows :
                   /\ scene.frame.hooks[k] \subseteq repaints(scene.windows[k])
                   /\ scene.frame.hooks[k] = {}
                        => scene.windows[k].m_repaints = Finite({}))
    /\ [][scene'.op # "paintScreen"
            => \A k \in DOMAIN scene.windows :
                   repaints(scene.windows[k]) \subseteq repaints(scene'.windows[k])]_vars

\* a frame of the generic path in which the hook of the bottom window
\* scheduled a repaint of pixel 1, which is pending after the frame
C39_Witness ==
    /\ scene.op = "paintScreen"
    /\ scene.frame.generic
    /\ scene.frame.hooks[1] = {1}
    /\ scene.frame.hooks[2] = {}
    /\ scene.windows[1].m_repaints = Finite({1})
    /\ scene.windows[2].m_repaints = Finite({})

(* ------------------- parent and child links of the items --------------- *)

\* C40: after any sequence of setParentItem, stackBefore, stackAfter and
\* stackChildren calls that ran to their end, an item is exactly once in
\* the child list of its parentItem and in no other child list.
C40_ParentAndChildLinksAgree ==
    (~itemEnv.aborted /\ ~itemEnv.ub)
        => \A i \in ItemIds, p \in ItemIds :
               Count(items[p].m_childItems, i)
                   = (IF items[i].m_parentItem = p THEN 1 ELSE 0)

====
